---------------------------- MODULE Spec2Model ----------------------------
(***************************************************************************)
(* A model of the documentation tool of mcp-docs-server: path              *)
(* normalisation and resolution (src/utils.ts, src/tools/docs.ts), the     *)
(* directory lister, the relevance suggester and the tool callback.        *)
(*                                                                         *)
(* Strings are sequences of one-character strings, so that the character   *)
(* level operations of the code (replace, startsWith, slice, split) are    *)
(* computed as the code computes them.  A text made of several parts is    *)
(* the concatenation of the parts.                                         *)
(***************************************************************************)
EXTENDS Integers, Sequences, FiniteSets, TLC

(***************************************************************************)
(* Bounds of the model.                                                    *)
(***************************************************************************)
MaxLen == 5          \* longest requested path enumerated by SpecPath
MaxFiles == 12       \* most .md files directly in the first base directory (SpecSuggest)
MaxOtherFiles == 2   \* most .md files in the second base directory (SpecSuggest)

(***************************************************************************)
(* String helpers (JavaScript String.prototype semantics).                 *)
(***************************************************************************)
Slash == "/"
Backslash == "\\"
Dot == "."

\* s.slice(n): the string without its first n characters
SliceFrom(s, n) == SubSeq(s, n + 1, Len(s))

\* s.startsWith(p)
StartsWith(s, p) == Len(s) >= Len(p) /\ SubSeq(s, 1, Len(p)) = p

\* s.endsWith(p)
EndsWith(s, p) == Len(s) >= Len(p) /\ SubSeq(s, Len(s) - Len(p) + 1, Len(s)) = p

\* s.replace(/\\/g, "/")
ReplaceBackslashes(s) == [i \in 1..Len(s) |-> IF s[i] = Backslash THEN Slash ELSE s[i]]

\* s.replace(/^\/+/u, "")
RECURSIVE StripLeadingSlashes(_)
StripLeadingSlashes(s) ==
    IF Len(s) > 0 /\ s[1] = Slash THEN StripLeadingSlashes(SliceFrom(s, 1)) ELSE s

\* s.replace(/\/+/gu, "/")
RECURSIVE CollapseSlashes(_)
CollapseSlashes(s) ==
    IF Len(s) < 2 THEN s
    ELSE IF s[1] = Slash /\ s[2] = Slash THEN CollapseSlashes(SliceFrom(s, 1))
    ELSE <<s[1]>> \o CollapseSlashes(SliceFrom(s, 1))

\* the while loop of normalizeDocPath: strip every leading "./"
RECURSIVE StripLeadingDotSlash(_)
StripLeadingDotSlash(s) ==
    IF StartsWith(s, <<Dot, Slash>>) THEN StripLeadingDotSlash(SliceFrom(s, 2)) ELSE s

\* s.split("/"): always at least one segment, empty segments kept
RECURSIVE SplitSlash(_)
SplitSlash(s) ==
    IF \A i \in 1..Len(s) : s[i] # Slash THEN <<s>>
    ELSE LET k == CHOOSE i \in 1..Len(s) : s[i] = Slash /\ \A j \in 1..(i - 1) : s[j] # Slash
         IN <<SubSeq(s, 1, k - 1)>> \o SplitSlash(SliceFrom(s, k))

\* segments.join("/")
RECURSIVE JoinSlash(_)
JoinSlash(segs) ==
    IF Len(segs) = 0 THEN <<>>
    ELSE IF Len(segs) = 1 THEN segs[1]
    ELSE segs[1] \o <<Slash>> \o JoinSlash(Tail(segs))

UpperLetters == <<"A", "B", "C", "D", "E", "F", "G", "H", "I", "J", "K", "L", "M",
                  "N", "O", "P", "Q", "R", "S", "T", "U", "V", "W", "X", "Y", "Z">>
LowerLetters == <<"a", "b", "c", "d", "e", "f", "g", "h", "i", "j", "k", "l", "m",
                  "n", "o", "p", "q", "r", "s", "t", "u", "v", "w", "x", "y", "z">>

\* [A-Z]
IsUpperCase(c) == \E i \in 1..Len(UpperLetters) : UpperLetters[i] = c

\* String.prototype.toLowerCase, one character
ToLowerChar(c) ==
    IF IsUpperCase(c)
    THEN LowerLetters[CHOOSE i \in 1..Len(UpperLetters) : UpperLetters[i] = c]
    ELSE c

\* String.prototype.toLowerCase
ToLowerCase(s) == [i \in 1..Len(s) |-> ToLowerChar(s[i])]

\* String.prototype.includes
Includes(s, sub) ==
    \E i \in 0..(Len(s) - Len(sub)) : SubSeq(s, i + 1, i + Len(sub)) = sub

(***************************************************************************)
(* normalizeDocPath and hasTraversal.                                      *)
(***************************************************************************)
normalizeDocPath(docPath) ==
    LET n1 == ReplaceBackslashes(docPath)
        n2 == StripLeadingDotSlash(n1)
        n3 == StripLeadingSlashes(n2)
        n4 == CollapseSlashes(n3)
    IN IF EndsWith(n4, <<Slash>>) THEN SubSeq(n4, 1, Len(n4) - 1) ELSE n4

hasTraversal(input) ==
    LET segments == SplitSlash(input)
    IN \E i \in 1..Len(segments) : segments[i] = <<Dot, Dot>>


(***************************************************************************)
(* The state.                                                              *)
(*   config       the loaded DocsServerConfig (its docRoot)                *)
(*   fs           the filesystem: absolute path -> node                    *)
(*   denied       the paths whose readdir / readFile fails (EACCES)        *)
(*   mdFileCache  the module-level cache of walkMdFiles: directory -> files *)
(*   docPath      a requested path given to the path functions             *)
(*   norm1        normalizeDocPath(docPath)                                *)
(*   norm2        normalizeDocPath(norm1)                                  *)
(*   resolution   the outcome of resolveDocPath(docPath, config)           *)
(*   listing      listDirContents of the resolved directory                *)
(*   listing2     listDirContents of the same directory, called again      *)
(*   queryKeywords, baseDirs                                               *)
(*                the other arguments of a getMatchingPaths call           *)
(*   suggestion   the outcome of getMatchingPaths                          *)
(*   pc           how far the functions have been applied                  *)
(*   transport    what server.sendLoggingMessage does with a log message   *)
(*   cachedConfig the module-level cache of loadConfig (<<>> when null)     *)
(*   loading      the loadConfig calls that are awaiting the filesystem     *)
(*   history      the calls of the config module that have returned/thrown  *)
(*   callsLeft    how many more calls of the config module are made         *)
(***************************************************************************)
VARIABLES config, fs, denied, mdFileCache,
          docPath, norm1, norm2, resolution, listing, listing2,
          queryKeywords, baseDirs, suggestion, pc,
          paths, tasks, availablePaths, response, rejection, logs, completed,
          fsOps, callNo, prevPaths, prevResponse, followed, transport,
          cachedConfig, loading, history, callsLeft

configVars == <<cachedConfig, loading, history, callsLeft>>
envVars == <<config, fs, denied, transport, configVars>>
pathVars == <<norm1, norm2, resolution, listing, listing2>>
suggestVars == <<queryKeywords, baseDirs, suggestion>>
toolVars == <<paths, tasks, availablePaths, response, rejection, logs, completed,
              fsOps, callNo, prevPaths, prevResponse, followed>>
vars == <<config, fs, denied, transport, configVars, mdFileCache,
          docPath, norm1, norm2, resolution, listing, listing2,
          queryKeywords, baseDirs, suggestion, pc, toolVars>>

\* the config module is not used: nothing cached, no call made or to be made
ConfigIdle ==
    /\ cachedConfig = <<>>
    /\ loading = <<>>
    /\ history = <<>>
    /\ callsLeft = 0

\* the tool callback has not been called
ToolIdle ==
    /\ paths = <<>>
    /\ tasks = <<>>
    /\ availablePaths = <<>>
    /\ response = <<>>
    /\ rejection = <<>>
    /\ logs = <<>>
    /\ completed = <<>>
    /\ fsOps = {}
    /\ callNo = 0
    /\ prevPaths = <<>>
    /\ prevResponse = <<>>
    /\ followed = 0

(***************************************************************************)
(* The filesystem.  A node is a directory (its entries in readdir order)   *)
(* or a regular file (its lines).                                          *)
(***************************************************************************)
Dir(entries) == [kind |-> "dir", entries |-> entries, lines |-> <<>>]
File(lines) == [kind |-> "file", entries |-> <<>>, lines |-> lines]

\* fs.stat(p) succeeds
StatOk(tree, p) == p \in DOMAIN tree

\* path.join(dir, name) for a plain entry name
PathJoin(dir, name) == dir \o <<Slash>> \o name

\* the segment normalisation of path.resolve: "" and "." are dropped, ".." pops
RECURSIVE ResolveSegments(_, _)
ResolveSegments(segs, acc) ==
    IF Len(segs) = 0 THEN acc
    ELSE LET s == Head(segs)
         IN IF s = <<>> \/ s = <<Dot>> THEN ResolveSegments(Tail(segs), acc)
            ELSE IF s = <<Dot, Dot>>
                 THEN ResolveSegments(Tail(segs),
                                      IF Len(acc) = 0 THEN acc ELSE SubSeq(acc, 1, Len(acc) - 1))
            ELSE ResolveSegments(Tail(segs), Append(acc, s))

\* path.resolve(base, rel) on a POSIX host, base being absolute
PathResolve(base, rel) ==
    LET full == IF StartsWith(rel, <<Slash>>) THEN rel ELSE base \o <<Slash>> \o rel
    IN <<Slash>> \o JoinSlash(ResolveSegments(SplitSlash(full), <<>>))

(***************************************************************************)
(* resolveDocPath.                                                         *)
(***************************************************************************)
NullResolved == [isNull |-> TRUE, absolutePath |-> <<>>, relativePath |-> <<>>]
Resolved(abs, rel) == [isNull |-> FALSE, absolutePath |-> abs, relativePath |-> rel]

\* Set.add: insertion order kept, a value already present is not added again
SetAdd(seq, x) == IF \E i \in 1..Len(seq) : seq[i] = x THEN seq ELSE Append(seq, x)

rootPrefixOf(root) == IF root.relativePath = <<Dot>> THEN <<>> ELSE root.relativePath

\* a plausible slip: the path without the root's prefix is tried first
resolveCandidates_strippedFirst(normalized, root) ==
    LET rootPrefix == rootPrefixOf(root)
        c1 == IF rootPrefix # <<>> /\ StartsWith(normalized, rootPrefix \o <<Slash>>)
              THEN <<SliceFrom(normalized, Len(rootPrefix) + 1)>>
              ELSE <<>>
        c2 == SetAdd(c1, normalized)
        c3 == IF rootPrefix # <<>> /\ normalized = rootPrefix THEN SetAdd(c2, <<Dot>>) ELSE c2
    IN IF Len(normalized) = 0 THEN SetAdd(c3, <<Dot>>) ELSE c3

resolveCandidates(normalized, root) ==
    LET rootPrefix == rootPrefixOf(root)
        c1 == <<normalized>>
        c2 == IF rootPrefix # <<>> /\ StartsWith(normalized, rootPrefix \o <<Slash>>)
              THEN SetAdd(c1, SliceFrom(normalized, Len(rootPrefix) + 1))
              ELSE c1
        c3 == IF rootPrefix # <<>> /\ normalized = rootPrefix THEN SetAdd(c2, <<Dot>>) ELSE c2
    IN IF Len(normalized) = 0 THEN SetAdd(c3, <<Dot>>) ELSE c3

candidateRelativePath(candidate) ==
    IF candidate = <<Dot>> THEN <<Dot>> ELSE normalizeDocPath(candidate)

candidateTarget(candidate, root) ==
    IF candidateRelativePath(candidate) = <<Dot>>
    THEN root.absolutePath
    ELSE PathResolve(root.absolutePath, candidateRelativePath(candidate))

\* the for loop over the candidates: the first one inside the root whose stat succeeds
RECURSIVE firstExisting(_, _, _)
firstExisting(candidates, root, tree) ==
    IF Len(candidates) = 0 THEN NullResolved
    ELSE LET target == candidateTarget(Head(candidates), root)
         IN IF StartsWith(target, root.absolutePath) /\ StatOk(tree, target)
            THEN Resolved(target, candidateRelativePath(Head(candidates)))
            ELSE firstExisting(Tail(candidates), root, tree)

\* a plausible slip: the traversal check reads the raw input, not the normalized one
resolveDocPath_rawCheck(p, cfg, tree) ==
    LET normalized == normalizeDocPath(p)
    IN IF hasTraversal(p)
       THEN [isSecurityViolation |-> TRUE, resolved |-> NullResolved, rootPrefix |-> <<>>]
       ELSE [isSecurityViolation |-> FALSE,
             resolved |-> firstExisting(resolveCandidates(normalized, cfg.docRoot), cfg.docRoot, tree),
             rootPrefix |-> rootPrefixOf(cfg.docRoot)]

resolveDocPath(p, cfg, tree) ==
    LET normalized == normalizeDocPath(p)
    IN IF hasTraversal(normalized)
       THEN [isSecurityViolation |-> TRUE, resolved |-> NullResolved, rootPrefix |-> <<>>]
       ELSE [isSecurityViolation |-> FALSE,
             resolved |-> firstExisting(resolveCandidates(normalized, cfg.docRoot), cfg.docRoot, tree),
             rootPrefix |-> rootPrefixOf(cfg.docRoot)]


(***************************************************************************)
(* String.prototype.localeCompare, as far as the characters of the model   *)
(* go: punctuation sorts before letters, letters compare without case      *)
(* first, and a lowercase letter sorts before its uppercase form.          *)
(***************************************************************************)
PrimaryWeight(c) ==
    LET l == ToLowerChar(c)
    IN IF \E i \in 1..Len(LowerLetters) : LowerLetters[i] = l
       THEN 10 + (CHOOSE i \in 1..Len(LowerLetters) : LowerLetters[i] = l)
       ELSE CASE l = "_" -> 1 [] l = "-" -> 2 [] l = Dot -> 3 [] l = Slash -> 4
              [] l = "#" -> 5 [] OTHER -> 9

CaseWeight(c) == IF IsUpperCase(c) THEN 1 ELSE 0

\* the weight of a character at a collation level: "primary" or "case"
Weight(c, level) == IF level = "primary" THEN PrimaryWeight(c) ELSE CaseWeight(c)

\* lexicographic comparison of two strings by the weights of one level
RECURSIVE CompareBy(_, _, _)
CompareBy(a, b, level) ==
    IF Len(a) = 0 /\ Len(b) = 0 THEN 0
    ELSE IF Len(a) = 0 THEN -1
    ELSE IF Len(b) = 0 THEN 1
    ELSE IF Weight(a[1], level) < Weight(b[1], level) THEN -1
    ELSE IF Weight(a[1], level) > Weight(b[1], level) THEN 1
    ELSE CompareBy(Tail(a), Tail(b), level)

LocaleCompare(a, b) ==
    IF CompareBy(a, b, "primary") # 0 THEN CompareBy(a, b, "primary")
    ELSE CompareBy(a, b, "case")

\* Array.prototype.sort((a, b) => a.localeCompare(b)): a stable sort
RECURSIVE InsertLocale(_, _)
InsertLocale(sorted, x) ==
    IF Len(sorted) = 0 THEN <<x>>
    ELSE IF LocaleCompare(x, sorted[Len(sorted)]) >= 0 THEN Append(sorted, x)
    ELSE Append(InsertLocale(SubSeq(sorted, 1, Len(sorted) - 1), x), sorted[Len(sorted)])

RECURSIVE SortLocale(_)
SortLocale(seq) ==
    IF Len(seq) = 0 THEN <<>>
    ELSE InsertLocale(SortLocale(SubSeq(seq, 1, Len(seq) - 1)), seq[Len(seq)])

(***************************************************************************)
(* The directory lister: listDirContents and buildDisplayPath.             *)
(***************************************************************************)
sMd == <<Dot, "m", "d">>

\* segments.filter(Boolean)
RECURSIVE FilterNonEmpty(_)
FilterNonEmpty(segs) ==
    IF Len(segs) = 0 THEN <<>>
    ELSE IF Head(segs) = <<>> THEN FilterNonEmpty(Tail(segs))
    ELSE <<Head(segs)>> \o FilterNonEmpty(Tail(segs))

buildDisplayPath(relativePath, entry, rootPrefix, isDirectory) ==
    LET cleaned == IF relativePath = <<Dot>> THEN <<>> ELSE normalizeDocPath(relativePath)
        s1 == IF Len(rootPrefix) > 0 THEN <<rootPrefix>> ELSE <<>>
        s2 == IF Len(cleaned) > 0 THEN Append(s1, cleaned) ELSE s1
        composed == JoinSlash(FilterNonEmpty(Append(s2, entry)))
    IN IF isDirectory THEN composed \o <<Slash>> ELSE composed

\* fs.readdir(dir) succeeds
ReaddirOk(tree, deny, dir) == dir \in DOMAIN tree /\ tree[dir].kind = "dir" /\ dir \notin deny

\* fs.readFile(file) succeeds
ReadFileOk(tree, deny, file) == file \in DOMAIN tree /\ tree[file].kind = "file" /\ file \notin deny

\* the Dirent of an entry: "dir", "file", or "other" for an entry that is neither
EntryKind(tree, dir, name) ==
    IF PathJoin(dir, name) \in DOMAIN tree THEN tree[PathJoin(dir, name)].kind ELSE "other"

\* a plausible slip: the case-insensitive .md/.mdx test of the top-level summary
listsFile_mdx(name) ==
    \/ \E e \in {<<Dot, "m", "d">>, <<Dot, "M", "D">>, <<Dot, "m", "d", "x">>} : EndsWith(name, e)

\* the name filter of the lister's file branch
listsFile(name) == EndsWith(name, sMd)

RECURSIVE listDirLoop(_, _, _, _, _)
listDirLoop(tree, entries, rootPrefix, resolved, acc) ==
    IF Len(entries) = 0 THEN acc
    ELSE LET name == Head(entries)
             kind == EntryKind(tree, resolved.absolutePath, name)
             next ==
                 IF kind = "dir"
                 THEN [acc EXCEPT !.dirs =
                           Append(@, buildDisplayPath(resolved.relativePath, name, rootPrefix, TRUE))]
                 ELSE IF kind = "file" /\ listsFile(name)
                 THEN [acc EXCEPT !.files =
                           Append(@, buildDisplayPath(resolved.relativePath, name, rootPrefix, FALSE))]
                 ELSE acc
         IN listDirLoop(tree, Tail(entries), rootPrefix, resolved, next)

\* the two sorts that end listDirContents
sortListing(l) == [dirs |-> SortLocale(l.dirs), files |-> SortLocale(l.files)]

\* listDirContents, for a directory whose readdir succeeds
listDirContents(tree, rootPrefix, resolved) ==
    sortListing(listDirLoop(tree, tree[resolved.absolutePath].entries, rootPrefix, resolved,
                            [dirs |-> <<>>, files |-> <<>>]))

(***************************************************************************)
(* Keyword extraction: extractKeywordsFromPath and normalizeKeywords.      *)
(***************************************************************************)
\* filePath.split("/").pop()
LastSegment(filePath) == LET segments == SplitSlash(filePath) IN segments[Len(segments)]

\* replace(/\.(mdx|md)$/i, "")
StripMdExtension(name) ==
    IF EndsWith(ToLowerCase(name), <<Dot, "m", "d", "x">>) THEN SubSeq(name, 1, Len(name) - 4)
    ELSE IF EndsWith(ToLowerCase(name), <<Dot, "m", "d">>) THEN SubSeq(name, 1, Len(name) - 3)
    ELSE name

\* filename.split(/[-_]|(?=[A-Z])/), without the empty parts
RECURSIVE SplitParts(_, _)
SplitParts(s, cur) ==
    IF Len(s) = 0 THEN (IF Len(cur) = 0 THEN <<>> ELSE <<cur>>)
    ELSE IF s[1] = "-" \/ s[1] = "_"
         THEN (IF Len(cur) = 0 THEN <<>> ELSE <<cur>>) \o SplitParts(Tail(s), <<>>)
    ELSE IF IsUpperCase(s[1])
         THEN (IF Len(cur) = 0 THEN <<>> ELSE <<cur>>) \o SplitParts(Tail(s), <<s[1]>>)
    ELSE SplitParts(Tail(s), Append(cur, s[1]))

\* the loop filling the keyword Set: parts longer than 2, lowercased, once each
RECURSIVE AddKeywords(_, _)
AddKeywords(parts, acc) ==
    IF Len(parts) = 0 THEN acc
    ELSE AddKeywords(Tail(parts),
                     IF Len(Head(parts)) > 2 THEN SetAdd(acc, ToLowerCase(Head(parts))) ELSE acc)

extractKeywordsFromPath(filePath) ==
    AddKeywords(SplitParts(StripMdExtension(LastSegment(filePath)), <<>>), <<>>)

\* k.split(/\s+/).filter(Boolean)
RECURSIVE SplitWhitespace(_, _)
SplitWhitespace(s, cur) ==
    IF Len(s) = 0 THEN (IF Len(cur) = 0 THEN <<>> ELSE <<cur>>)
    ELSE IF s[1] = " "
         THEN (IF Len(cur) = 0 THEN <<>> ELSE <<cur>>) \o SplitWhitespace(Tail(s), <<>>)
    ELSE SplitWhitespace(Tail(s), Append(cur, s[1]))

\* keywords.flatMap(...)
RECURSIVE FlatMapSplit(_)
FlatMapSplit(keywords) ==
    IF Len(keywords) = 0 THEN <<>>
    ELSE SplitWhitespace(Head(keywords), <<>>) \o FlatMapSplit(Tail(keywords))

\* Array.from(new Set(seq))
RECURSIVE Dedupe(_, _)
Dedupe(seq, acc) == IF Len(seq) = 0 THEN acc ELSE Dedupe(Tail(seq), SetAdd(acc, Head(seq)))

normalizeKeywords(keywords) ==
    LET parts == FlatMapSplit(keywords)
    IN Dedupe([i \in 1..Len(parts) |-> ToLowerCase(parts[i])], <<>>)

(***************************************************************************)
(* walkMdFiles: the recursive walk and its module-level cache.  The result *)
(* of a walk is the files it yields, whether a readdir threw, and the      *)
(* cache entries it sets (one per directory enumerated to its end).        *)
(***************************************************************************)
EmptyCache == [d \in {} |-> <<>>]

\* mdFileCache.set(dir, files)
CacheSet(cache, dir, files) == (dir :> files) @@ cache

RECURSIVE ApplyCacheSets(_, _)
ApplyCacheSets(cache, sets) ==
    IF Len(sets) = 0 THEN cache
    ELSE ApplyCacheSets(CacheSet(cache, Head(sets)[1], Head(sets)[2]), Tail(sets))

RECURSIVE walkMdFiles(_, _, _, _)
RECURSIVE walkEntries(_, _, _, _, _, _)

\* a plausible slip: the entry of a directory is written in a finally block,
\* also when the walk of one of its subdirectories threw
walkEntries_setsOnFailure(tree, deny, cache, dir, entries, acc) ==
    IF Len(entries) = 0
    THEN [acc EXCEPT !.sets = Append(@, <<dir, acc.files>>)]
    ELSE LET fullPath == PathJoin(dir, Head(entries))
             kind == EntryKind(tree, dir, Head(entries))
         IN IF kind = "dir"
            THEN LET sub == walkMdFiles(tree, deny, cache, fullPath)
                     merged == [ok |-> sub.ok,
                                files |-> acc.files \o sub.files,
                                sets |-> acc.sets \o sub.sets,
                                failedAt |-> sub.failedAt]
                 IN IF sub.ok
                    THEN walkEntries(tree, deny, cache, dir, Tail(entries), merged)
                    ELSE [merged EXCEPT !.sets = Append(@, <<dir, merged.files>>)]
            ELSE IF kind = "file" /\ EndsWith(Head(entries), sMd)
            THEN walkEntries(tree, deny, cache, dir, Tail(entries),
                             [acc EXCEPT !.files = Append(@, fullPath)])
            ELSE walkEntries(tree, deny, cache, dir, Tail(entries), acc)

walkEntries(tree, deny, cache, dir, entries, acc) ==
    IF Len(entries) = 0
    THEN [acc EXCEPT !.sets = Append(@, <<dir, acc.files>>)]
    ELSE LET fullPath == PathJoin(dir, Head(entries))
             kind == EntryKind(tree, dir, Head(entries))
         IN IF kind = "dir"
            THEN LET sub == walkMdFiles(tree, deny, cache, fullPath)
                     merged == [ok |-> sub.ok,
                                files |-> acc.files \o sub.files,
                                sets |-> acc.sets \o sub.sets,
                                failedAt |-> sub.failedAt]
                 IN IF sub.ok
                    THEN walkEntries(tree, deny, cache, dir, Tail(entries), merged)
                    ELSE merged
            ELSE IF kind = "file" /\ EndsWith(Head(entries), sMd)
            THEN walkEntries(tree, deny, cache, dir, Tail(entries),
                             [acc EXCEPT !.files = Append(@, fullPath)])
            ELSE walkEntries(tree, deny, cache, dir, Tail(entries), acc)

walkMdFiles(tree, deny, cache, dir) ==
    IF dir \in DOMAIN cache
    THEN [ok |-> TRUE, files |-> cache[dir], sets |-> <<>>, failedAt |-> <<>>]
    ELSE IF ~ReaddirOk(tree, deny, dir)
    THEN [ok |-> FALSE, files |-> <<>>, sets |-> <<>>, failedAt |-> dir]
    ELSE walkEntries(tree, deny, cache, dir, tree[dir].entries,
                     [ok |-> TRUE, files |-> <<>>, sets |-> <<>>, failedAt |-> <<>>])

(***************************************************************************)
(* Scoring: calculatePathRelevance, calculateFinalScore and                *)
(* searchDocumentContent.                                                  *)
(***************************************************************************)
SuggestionLimit == 10

sReference == <<"r", "e", "f", "e", "r", "e", "n", "c", "e">>
sGuides == <<"g", "u", "i", "d", "e", "s">>
sGettingStarted == <<"g", "e", "t", "t", "i", "n", "g", "-", "s", "t", "a", "r", "t", "e", "d">>
sArchitecture == <<"a", "r", "c", "h", "i", "t", "e", "c", "t", "u", "r", "e">>
sTitle == <<"t", "i", "t", "l", "e">>

calculatePathRelevance(filePath, keywords) ==
    LET pathLower == ToLowerCase(filePath)
    IN (IF StartsWith(pathLower, sReference \o <<Slash>>) THEN 2 ELSE 0)
       + 3 * Cardinality({i \in 1..Len(keywords) : Includes(pathLower, ToLowerCase(keywords[i]))})
       + (IF \E seg \in {sGuides, sGettingStarted, sArchitecture} : Includes(pathLower, seg)
          THEN 1 ELSE 0)

\* a plausible slip: the path relevance is left out of the sum
calculateFinalScore_noPathRelevance(score, totalKeywords) ==
    score.totalMatches * 1 + score.titleMatches * 3
    + Cardinality(score.keywordMatches) * 5
    + (IF Cardinality(score.keywordMatches) = totalKeywords THEN 10 ELSE 0)

calculateFinalScore(score, totalKeywords) ==
    score.totalMatches * 1 + score.titleMatches * 3 + score.pathRelevance * 2
    + Cardinality(score.keywordMatches) * 5
    + (IF Cardinality(score.keywordMatches) = totalKeywords THEN 10 ELSE 0)

\* keyword k is found in line l of the file
LineHit(lines, keywords, l, k) == Includes(ToLowerCase(lines[l]), ToLowerCase(keywords[k]))

\* a plausible slip: a line is counted once, however many keywords it holds
scoreFile_perLine(relativePath, lines, keywords) ==
    LET hits == {<<l, k>> \in (1..Len(lines)) \X (1..Len(keywords)) :
                    Includes(ToLowerCase(lines[l]), ToLowerCase(keywords[k]))}
        hitLines == {h[1] : h \in hits}
    IN [path |-> relativePath,
        keywordMatches |-> {keywords[h[2]] : h \in hits},
        totalMatches |-> Cardinality(hitLines),
        titleMatches |-> Cardinality({l \in hitLines :
                             \/ Includes(ToLowerCase(lines[l]), <<"#">>)
                             \/ Includes(ToLowerCase(lines[l]), sTitle)}),
        pathRelevance |-> calculatePathRelevance(relativePath, keywords)]

\* the FileScore a readable file ends the line loop with
scoreFile(relativePath, lines, keywords) ==
    LET hits == {<<l, k>> \in (1..Len(lines)) \X (1..Len(keywords)) : LineHit(lines, keywords, l, k)}
    IN [path |-> relativePath,
        keywordMatches |-> {keywords[h[2]] : h \in hits},
        totalMatches |-> Cardinality(hits),
        titleMatches |-> Cardinality({h \in hits :
                             \/ Includes(ToLowerCase(lines[h[1]]), <<"#">>)
                             \/ Includes(ToLowerCase(lines[h[1]]), sTitle)}),
        pathRelevance |-> calculatePathRelevance(relativePath, keywords)]

\* path.relative(baseDir, filePath) for a file beneath baseDir
PathRelative(baseDir, filePath) == SliceFrom(filePath, Len(baseDir) + 1)

RECURSIVE collectScores(_, _, _, _, _)

\* a plausible slip: the loop ends at the first file whose read fails
collectScores_break(tree, deny, files, keywords, baseDir) ==
    IF Len(files) = 0 \/ ~ReadFileOk(tree, deny, Head(files)) THEN <<>>
    ELSE LET sc == scoreFile(ReplaceBackslashes(PathRelative(baseDir, Head(files))),
                             tree[Head(files)].lines, keywords)
             rest == collectScores(tree, deny, Tail(files), keywords, baseDir)
         IN IF sc.totalMatches = 0 THEN rest ELSE <<sc>> \o rest

\* the for-await loop: a file whose read fails is skipped, a file without a hit gets no
\* score; the key of a score is path.relative(baseDir, filePath).replace(/\\/g, "/")
collectScores(tree, deny, files, keywords, baseDir) ==
    IF Len(files) = 0 THEN <<>>
    ELSE LET f == Head(files)
             rest == collectScores(tree, deny, Tail(files), keywords, baseDir)
         IN IF ~ReadFileOk(tree, deny, f) THEN rest
            ELSE LET sc == scoreFile(ReplaceBackslashes(PathRelative(baseDir, f)),
                                     tree[f].lines, keywords)
                 IN IF sc.totalMatches = 0 THEN rest ELSE <<sc>> \o rest

\* sort((a, b) => final(b) - final(a)): stable, highest score first
RECURSIVE InsertByScore(_, _, _)
InsertByScore(sorted, x, n) ==
    IF Len(sorted) = 0 THEN <<x>>
    ELSE IF calculateFinalScore(sorted[Len(sorted)], n) >= calculateFinalScore(x, n)
    THEN Append(sorted, x)
    ELSE Append(InsertByScore(SubSeq(sorted, 1, Len(sorted) - 1), x, n), sorted[Len(sorted)])

RECURSIVE SortByScore(_, _)
SortByScore(seq, n) ==
    IF Len(seq) = 0 THEN <<>>
    ELSE InsertByScore(SortByScore(SubSeq(seq, 1, Len(seq) - 1), n), seq[Len(seq)], n)

\* slice(0, 10)
TopSlice(seq) == SubSeq(seq, 1, IF Len(seq) < SuggestionLimit THEN Len(seq) ELSE SuggestionLimit)

\* the outcome of searchDocumentContent: the paths it returns or the readdir that threw,
\* the cache entries its walk sets, and the values of its fileScores Map
searchDocumentContent(keywords, baseDir, tree, deny, cache) ==
    IF Len(keywords) = 0
    THEN [threw |-> FALSE, failedAt |-> <<>>, paths |-> <<>>, sets |-> <<>>, scores |-> <<>>]
    ELSE LET w == walkMdFiles(tree, deny, cache, baseDir)
         IN IF ~w.ok
            THEN [threw |-> TRUE, failedAt |-> w.failedAt, paths |-> <<>>, sets |-> w.sets,
                  scores |-> <<>>]
            ELSE LET scores == collectScores(tree, deny, w.files, keywords, baseDir)
                     top == TopSlice(SortByScore(scores, Len(keywords)))
                 IN [threw |-> FALSE, failedAt |-> <<>>,
                     paths |-> [i \in 1..Len(top) |-> top[i].path],
                     sets |-> w.sets, scores |-> scores]

(***************************************************************************)
(* getMatchingPaths.                                                       *)
(***************************************************************************)
Newline == "\n"
SuggestionHeader == "Here are some paths that might be relevant based on your query:"
BulletPrefix == "- "

\* the UTF-16 code unit of a character of the model
CharCode(c) ==
    IF \E i \in 1..Len(LowerLetters) : LowerLetters[i] = c
    THEN 96 + (CHOOSE i \in 1..Len(LowerLetters) : LowerLetters[i] = c)
    ELSE IF IsUpperCase(c)
    THEN 64 + (CHOOSE i \in 1..Len(UpperLetters) : UpperLetters[i] = c)
    ELSE CASE c = " " -> 32 [] c = "#" -> 35 [] c = "-" -> 45 [] c = Dot -> 46
           [] c = Slash -> 47 [] c = Backslash -> 92 [] c = "_" -> 95 [] OTHER -> 63

\* the default comparison of Array.prototype.sort(): by code units
RECURSIVE CompareCodeUnits(_, _)
CompareCodeUnits(a, b) ==
    IF Len(a) = 0 /\ Len(b) = 0 THEN 0
    ELSE IF Len(a) = 0 THEN -1
    ELSE IF Len(b) = 0 THEN 1
    ELSE IF CharCode(a[1]) < CharCode(b[1]) THEN -1
    ELSE IF CharCode(a[1]) > CharCode(b[1]) THEN 1
    ELSE CompareCodeUnits(Tail(a), Tail(b))

RECURSIVE InsertCodeUnits(_, _)
InsertCodeUnits(sorted, x) ==
    IF Len(sorted) = 0 THEN <<x>>
    ELSE IF CompareCodeUnits(x, sorted[Len(sorted)]) >= 0 THEN Append(sorted, x)
    ELSE Append(InsertCodeUnits(SubSeq(sorted, 1, Len(sorted) - 1), x), sorted[Len(sorted)])

\* Array.prototype.sort() without a comparator
RECURSIVE SortCodeUnits(_)
SortCodeUnits(seq) ==
    IF Len(seq) = 0 THEN <<>>
    ELSE InsertCodeUnits(SortCodeUnits(SubSeq(seq, 1, Len(seq) - 1)), seq[Len(seq)])

\* lines.join("\n")
RECURSIVE JoinNewline(_)
JoinNewline(lines) ==
    IF Len(lines) = 0 THEN <<>>
    ELSE IF Len(lines) = 1 THEN lines[1]
    ELSE lines[1] \o <<Newline>> \o JoinNewline(Tail(lines))

\* the for loop over baseDirs: every base is searched with the cache the bases before
\* it have left, and its result is added to the suggestedPaths Set
RECURSIVE searchBases(_, _, _, _, _)
searchBases(keywords, bases, tree, deny, acc) ==
    IF Len(bases) = 0 THEN acc
    ELSE LET r == searchDocumentContent(keywords, Head(bases), tree, deny, acc.cache)
             cache2 == ApplyCacheSets(acc.cache, r.sets)
         IN IF r.threw
            THEN [threw |-> TRUE, failedAt |-> r.failedAt, suggested |-> acc.suggested,
                  cache |-> cache2, sets |-> acc.sets \o r.sets, results |-> acc.results,
                  scored |-> acc.scored]
            ELSE searchBases(keywords, Tail(bases), tree, deny,
                             [threw |-> FALSE, failedAt |-> <<>>,
                              suggested |-> Dedupe(r.paths, acc.suggested),
                              cache |-> cache2, sets |-> acc.sets \o r.sets,
                              results |-> Append(acc.results, r.paths),
                              scored |-> Append(acc.scored, r.scores)])

\* the suggestion block of a non-empty list of paths
formatSuggestions(suggestedPaths) ==
    LET pathList == SortCodeUnits(suggestedPaths)
    IN <<SuggestionHeader, Newline, Newline>>
       \o JoinNewline([i \in 1..Len(pathList) |-> <<BulletPrefix>> \o pathList[i]])

\* a plausible slip: the check for an empty suggestedPaths Set is left out
getMatchingPaths_noSizeCheck(pathInput, keywordsIn, bases, tree, deny, cache) ==
    LET allKeywords == normalizeKeywords(extractKeywordsFromPath(pathInput) \o keywordsIn)
    IN IF Len(allKeywords) = 0
       THEN [threw |-> FALSE, failedAt |-> <<>>, keywords |-> allKeywords, text |-> <<>>,
             cache |-> cache, sets |-> <<>>,
             results |-> <<>>, scored |-> <<>>]
       ELSE LET r == searchBases(allKeywords, bases, tree, deny,
                                 [threw |-> FALSE, failedAt |-> <<>>,
                                  suggested |-> <<>>, cache |-> cache, sets |-> <<>>,
                                  results |-> <<>>, scored |-> <<>>])
            IN IF r.threw
               THEN [threw |-> TRUE, failedAt |-> r.failedAt, keywords |-> allKeywords, text |-> <<>>,
                     cache |-> r.cache, sets |-> r.sets, results |-> r.results,
                     scored |-> r.scored]
               ELSE [threw |-> FALSE, failedAt |-> <<>>,
                     keywords |-> allKeywords, text |-> formatSuggestions(r.suggested),
                     cache |-> r.cache, sets |-> r.sets, results |-> r.results,
                     scored |-> r.scored]

\* the outcome of getMatchingPaths: the string it returns, or the readdir that made it
\* throw, the cache it leaves, the mdFileCache.set calls it made, in order, and
\* what searchDocumentContent returned for each base
getMatchingPaths(pathInput, keywordsIn, bases, tree, deny, cache) ==
    LET allKeywords == normalizeKeywords(extractKeywordsFromPath(pathInput) \o keywordsIn)
    IN IF Len(allKeywords) = 0
       THEN [threw |-> FALSE, failedAt |-> <<>>, keywords |-> allKeywords, text |-> <<>>,
             cache |-> cache, sets |-> <<>>,
             results |-> <<>>, scored |-> <<>>]
       ELSE LET r == searchBases(allKeywords, bases, tree, deny,
                                 [threw |-> FALSE, failedAt |-> <<>>,
                                  suggested |-> <<>>, cache |-> cache, sets |-> <<>>,
                                  results |-> <<>>, scored |-> <<>>])
            IN IF r.threw
               THEN [threw |-> TRUE, failedAt |-> r.failedAt, keywords |-> allKeywords, text |-> <<>>,
                     cache |-> r.cache, sets |-> r.sets, results |-> r.results,
                     scored |-> r.scored]
               ELSE IF Len(r.suggested) = 0
               THEN [threw |-> FALSE, failedAt |-> <<>>, keywords |-> allKeywords, text |-> <<>>,
                     cache |-> r.cache, sets |-> r.sets, results |-> r.results,
                     scored |-> r.scored]
               ELSE [threw |-> FALSE, failedAt |-> <<>>,
                     keywords |-> allKeywords, text |-> formatSuggestions(r.suggested),
                     cache |-> r.cache, sets |-> r.sets, results |-> r.results,
                     scored |-> r.scored]

(***************************************************************************)
(* The path functions applied to every short string over the characters    *)
(* that matter to them, against a few document trees.  The document root   *)
(* is /w/d, configured as "d"; /w/dd is a sibling sharing its prefix.      *)
(***************************************************************************)
PathAlphabet == {Slash, Backslash, Dot, "d"}

StringsUpTo(n) == UNION {[1..k -> PathAlphabet] : k \in 0..n}

sW == <<Slash, "w">>
sRoot == sW \o <<Slash, "d">>
sSibling == sW \o <<Slash, "d", "d">>
sD == <<"d">>
sDD == <<"d", "d">>
sDdotD == <<"d", Dot, "d">>

DefaultConfig == [docRoot |-> [relativePath |-> sD, absolutePath |-> sRoot]]

Outside ==
    (<<Slash>> :> Dir(<<<<"w">>>>)) @@ (sW :> Dir(<<sDD, sD>>)) @@ (sSibling :> Dir(<<sD>>))
    @@ (PathJoin(sSibling, sD) :> File(<<>>))

\* file and directory names of the trees
sA == <<"a">>
sMmd == <<"m">> \o sMd
sDmd == <<"d">> \o sMd
sUDmd == <<"D">> \o sMd
sAmd == <<"a">> \o sMd
sXmd == <<"x">> \o sMd
sDMD == <<"d", Dot, "M", "D">>
sDmdx == <<"d">> \o sMd \o <<"x">>

\* the root holds a directory named like its own relative path; its entries come
\* in an unsorted readdir order; x.md is a dangling symbolic link
PathTreeNested ==
    Outside @@ (sRoot :> Dir(<<sMmd, sDD, sD, sUDmd, sDdotD, sDmd, sDMD, sXmd, sDmdx, sA>>))
    @@ (PathJoin(sRoot, sMmd) :> File(<<>>))
    @@ (PathJoin(sRoot, sDD) :> File(<<>>))
    @@ (PathJoin(sRoot, sD) :> Dir(<<sDD, sDmd, sAmd>>))
    @@ (PathJoin(sRoot, sUDmd) :> File(<<>>))
    @@ (PathJoin(sRoot, sDdotD) :> File(<<>>))
    @@ (PathJoin(sRoot, sDmd) :> File(<<>>))
    @@ (PathJoin(sRoot, sDMD) :> File(<<>>))
    @@ (PathJoin(sRoot, sDmdx) :> File(<<>>))
    @@ (PathJoin(sRoot, sA) :> Dir(<<>>))
    @@ (PathJoin(PathJoin(sRoot, sD), sDD) :> File(<<>>))
    @@ (PathJoin(PathJoin(sRoot, sD), sDmd) :> File(<<>>))
    @@ (PathJoin(PathJoin(sRoot, sD), sAmd) :> File(<<>>))

\* no directory named like the root's relative path; dd is a directory here
PathTreeFlat ==
    Outside @@ (sRoot :> Dir(<<sDD, sDmd>>))
    @@ (PathJoin(sRoot, sDD) :> Dir(<<sMmd, sA, sDMD, sAmd>>))
    @@ (PathJoin(sRoot, sDmd) :> File(<<>>))
    @@ (PathJoin(PathJoin(sRoot, sDD), sMmd) :> File(<<>>))
    @@ (PathJoin(PathJoin(sRoot, sDD), sA) :> Dir(<<>>))
    @@ (PathJoin(PathJoin(sRoot, sDD), sAmd) :> File(<<>>))
    @@ (PathJoin(PathJoin(sRoot, sDD), sDMD) :> File(<<>>))

PathTreeEmpty == Outside @@ (sRoot :> Dir(<<>>))

PathTrees == {PathTreeNested, PathTreeFlat, PathTreeEmpty}

NoListing == [dirs |-> <<>>, files |-> <<>>]
NoSuggestion ==
    [threw |-> FALSE, failedAt |-> <<>>, keywords |-> <<>>, text |-> <<>>,
     cache |-> EmptyCache, sets |-> <<>>,
     results |-> <<>>, scored |-> <<>>]

PathInit ==
    /\ config = DefaultConfig
    /\ transport = "resolves"
    /\ ConfigIdle
    /\ fs \in PathTrees
    /\ denied = {}
    /\ docPath \in StringsUpTo(MaxLen)
    /\ norm1 = <<>>
    /\ norm2 = <<>>
    /\ resolution = [isSecurityViolation |-> FALSE, resolved |-> NullResolved, rootPrefix |-> <<>>]
    /\ listing = NoListing
    /\ listing2 = NoListing
    /\ mdFileCache = EmptyCache
    /\ queryKeywords = <<>>
    /\ baseDirs = <<>>
    /\ suggestion = NoSuggestion
    /\ ToolIdle
    /\ pc = "input"

Normalize ==
    /\ pc = "input"
    /\ norm1' = normalizeDocPath(docPath)
    /\ pc' = "normalized"
    /\ UNCHANGED <<toolVars, envVars, mdFileCache, suggestVars, docPath, norm2, resolution, listing, listing2>>

Renormalize ==
    /\ pc = "normalized"
    /\ norm2' = normalizeDocPath(norm1)
    /\ pc' = "renormalized"
    /\ UNCHANGED <<toolVars, envVars, mdFileCache, suggestVars, docPath, norm1, resolution, listing, listing2>>

Resolve ==
    /\ pc = "renormalized"
    /\ resolution' = resolveDocPath(docPath, config, fs)
    /\ pc' = "resolved"
    /\ UNCHANGED <<toolVars, envVars, mdFileCache, suggestVars, docPath, norm1, norm2, listing, listing2>>

\* the resolved location is a directory the lister can read
ResolvedDir ==
    /\ ~resolution.resolved.isNull
    /\ ReaddirOk(fs, denied, resolution.resolved.absolutePath)

List ==
    /\ pc = "resolved"
    /\ ResolvedDir
    /\ listing' = listDirContents(fs, resolution.rootPrefix, resolution.resolved)
    /\ pc' = "listed"
    /\ UNCHANGED <<toolVars, envVars, mdFileCache, suggestVars, docPath, norm1, norm2, resolution, listing2>>

ListAgain ==
    /\ pc = "listed"
    /\ listing2' = listDirContents(fs, resolution.rootPrefix, resolution.resolved)
    /\ pc' = "listedAgain"
    /\ UNCHANGED <<toolVars, envVars, mdFileCache, suggestVars, docPath, norm1, norm2, resolution, listing>>

PathNext == Normalize \/ Renormalize \/ Resolve \/ List \/ ListAgain

SpecPath == PathInit /\ [][PathNext]_vars

(***************************************************************************)
(* C9: normalizeDocPath is idempotent: normalising its own output changes  *)
(* nothing, so the output has no leading "./".                             *)
(***************************************************************************)
NormalizeIdempotent == pc = "renormalized" => norm2 = norm1

(***************************************************************************)
(* C2: whenever resolveDocPath returns a resolved location, its            *)
(* absolutePath is the document root itself or a path beneath it: never a  *)
(* parent, never a sibling that only shares the root's string prefix.      *)
(***************************************************************************)
Beneath(p, root) == p = root \/ StartsWith(p, root \o <<Slash>>)

ResolvedInsideRoot ==
    (pc = "resolved" /\ ~resolution.resolved.isNull)
        => Beneath(resolution.resolved.absolutePath, config.docRoot.absolutePath)

\* a resolved request written with a backslash, a double slash or a "." segment
ResolvedInsideRootWitness ==
    /\ pc = "resolved"
    /\ ~resolution.resolved.isNull
    /\ resolution.resolved.absolutePath # config.docRoot.absolutePath
    /\ docPath # norm1
    /\ \E i \in 1..Len(docPath) : docPath[i] = Backslash

(***************************************************************************)
(* C10: the listing of a resolved directory holds exactly its immediate    *)
(* subdirectories, each suffixed with "/", and exactly its immediate       *)
(* regular files whose name ends in ".md" (case-sensitive), each displayed *)
(* as root-prefix/relative-directory/name with empty segments dropped;     *)
(* both lists ascend in localeCompare order, and a second listing of the   *)
(* unchanged directory equals the first.                                   *)
(***************************************************************************)
SeqRange(seq) == {seq[i] : i \in 1..Len(seq)}

ListedDirEntries == fs[resolution.resolved.absolutePath].entries

DisplayOf(name) ==
    JoinSlash(FilterNonEmpty(<<resolution.rootPrefix,
                               IF resolution.resolved.relativePath = <<Dot>>
                               THEN <<>> ELSE resolution.resolved.relativePath,
                               name>>))

ExpectedDirs ==
    {DisplayOf(n) \o <<Slash>> :
        n \in {m \in SeqRange(ListedDirEntries) :
                  EntryKind(fs, resolution.resolved.absolutePath, m) = "dir"}}

ExpectedFiles ==
    {DisplayOf(n) :
        n \in {m \in SeqRange(ListedDirEntries) :
                  /\ EntryKind(fs, resolution.resolved.absolutePath, m) = "file"
                  /\ Len(m) >= 3
                  /\ SubSeq(m, Len(m) - 2, Len(m)) = <<Dot, "m", "d">>}}

Ascending(seq) == \A i, j \in 1..Len(seq) : i < j => LocaleCompare(seq[i], seq[j]) <= 0

ListingExactSortedStable ==
    /\ pc \in {"listed", "listedAgain"} =>
          /\ SeqRange(listing.dirs) = ExpectedDirs
          /\ Len(listing.dirs) = Cardinality(ExpectedDirs)
          /\ SeqRange(listing.files) = ExpectedFiles
          /\ Len(listing.files) = Cardinality(ExpectedFiles)
          /\ Ascending(listing.dirs)
          /\ Ascending(listing.files)
    /\ pc = "listedAgain" => listing2 = listing

\* a directory below the root, asked for with the root's prefix, whose readdir order
\* is not the listed order and which holds files the listing leaves out
ListingWitness ==
    /\ pc = "listedAgain"
    /\ Len(listing.files) >= 2
    /\ Len(listing.dirs) >= 1
    /\ Len(ListedDirEntries) > Len(listing.files) + Len(listing.dirs)
    /\ resolution.resolved.absolutePath # config.docRoot.absolutePath
    /\ StartsWith(norm1, resolution.rootPrefix \o <<Slash>>)
    /\ \E i, j \in 1..Len(ListedDirEntries) :
          /\ i < j
          /\ DisplayOf(ListedDirEntries[i]) \in SeqRange(listing.files)
          /\ DisplayOf(ListedDirEntries[j]) \in SeqRange(listing.files)
          /\ LocaleCompare(ListedDirEntries[i], ListedDirEntries[j]) > 0

(***************************************************************************)
(* getMatchingPaths applied to trees of up to MaxFiles files.  The first   *)
(* base directory is the document root /w/d, with a subdirectory s; the    *)
(* second is /w/b.  File k of a base mentions the keywords "dad" and "max" *)
(* in a way that depends on k, so that scores differ.                      *)
(***************************************************************************)
sBaseB == sW \o <<Slash, "b">>
sS == <<"s">>
sDad == <<"d", "a", "d">>
sMax == <<"m", "a", "x">>

AName(k) == <<LowerLetters[k]>> \o sMd
BName(k) == <<"b", LowerLetters[k]>> \o sMd

ContentOf(k) ==
    IF k = 1 THEN << <<"x", "x", "x">> >>
    ELSE IF k = 2 THEN << <<"#", " ">> \o sDad, sMax >>
    ELSE IF k % 2 = 1 THEN << sDad >>
    ELSE << <<"M", "a", "x", " ">> \o sDad, sTitle \o <<" ">> \o sMax >>

SuggestTree(nA, nB) ==
    (sRoot :> Dir([k \in 1..nA |-> AName(k)] \o <<sS>>))
    @@ [f \in {PathJoin(sRoot, AName(k)) : k \in 1..nA} |->
           File(ContentOf(CHOOSE k \in 1..nA : f = PathJoin(sRoot, AName(k))))]
    @@ (PathJoin(sRoot, sS) :> Dir(<<sDad \o sMd>>))
    @@ (PathJoin(PathJoin(sRoot, sS), sDad \o sMd) :> File(<< <<"M", "A", "X">> >>))
    @@ (sBaseB :> Dir([k \in 1..nB |-> BName(k)]))
    @@ [f \in {PathJoin(sBaseB, BName(k)) : k \in 1..nB} |->
           File(<< sDad \o <<" ">> \o sDad >>)]

SuggestInputs ==
    { <<"d", "a", "d", "-", "m", "a", "x">>,
      <<"a", "b">>,
      <<"x", "/", "m", "a", "x", "D", "a", "d", ".", "M", "D">>,
      <<"z", "z", "z">>,
      <<"a", "b", " ", "d", "a", "d", "_", "m", "a", "x", "-", "a", "b">> }

SuggestQueries ==
    { <<>>, << <<"M", "A", "X", " ", "d", "a", "d">> >>, << <<" ">> >> }

SuggestInit ==
    /\ config = DefaultConfig
    /\ transport = "resolves"
    /\ ConfigIdle
    /\ \E nA \in 0..MaxFiles, nB \in 0..MaxOtherFiles : fs = SuggestTree(nA, nB)
    /\ denied \in {{}, {PathJoin(sRoot, sS)}, {PathJoin(sRoot, AName(2))}}
    /\ mdFileCache = EmptyCache
    /\ docPath \in SuggestInputs
    /\ queryKeywords \in SuggestQueries
    /\ baseDirs \in {<<sRoot>>, <<sRoot, sBaseB>>}
    /\ suggestion = NoSuggestion
    /\ norm1 = <<>>
    /\ norm2 = <<>>
    /\ resolution = [isSecurityViolation |-> FALSE, resolved |-> NullResolved, rootPrefix |-> <<>>]
    /\ listing = NoListing
    /\ listing2 = NoListing
    /\ ToolIdle
    /\ pc = "input"

\* one getMatchingPaths call, run to its end
Suggest ==
    /\ pc = "input"
    /\ suggestion' = getMatchingPaths(docPath, queryKeywords, baseDirs, fs, denied, mdFileCache)
    /\ mdFileCache' = suggestion'.cache
    /\ pc' = "suggested"
    /\ UNCHANGED <<toolVars, envVars, pathVars, docPath, queryKeywords, baseDirs>>

SuggestNext == Suggest

SpecSuggest == SuggestInit /\ [][SuggestNext]_vars

(***************************************************************************)
(* C7: getMatchingPaths lists at most 10 paths, for every path input,      *)
(* keyword list and list of base directories.                              *)
(***************************************************************************)
ListedCount(text) == Cardinality({i \in 1..Len(text) : text[i] = BulletPrefix})

SuggestionBound == pc = "suggested" => ListedCount(suggestion.text) <= SuggestionLimit

(***************************************************************************)
(* C8: whenever getMatchingPaths returns, it returns the empty string      *)
(* exactly when the keyword union is empty or no scanned file contains a   *)
(* keyword; otherwise the fixed header followed by at least one "- path"   *)
(* line.                                                                   *)
(***************************************************************************)
AllKeywordsOf(p, q) == normalizeKeywords(extractKeywordsFromPath(p) \o q)

\* the readable .md files beneath a base directory, read off the tree
ScannedFiles(base) ==
    {f \in DOMAIN fs :
        /\ fs[f].kind = "file"
        /\ f \notin denied
        /\ StartsWith(f, base \o <<Slash>>)
        /\ EndsWith(f, sMd)}

FileMentions(f, kw) ==
    \E l \in 1..Len(fs[f].lines) : Includes(ToLowerCase(fs[f].lines[l]), kw)

SomeFileMatches ==
    \E b \in SeqRange(baseDirs) : \E f \in ScannedFiles(b) :
        \E k \in SeqRange(AllKeywordsOf(docPath, queryKeywords)) : FileMentions(f, k)

isMarkdownFile(name) ==
    \/ EndsWith(ToLowerCase(name), sMd)
    \/ EndsWith(ToLowerCase(name), sMd \o <<"x">>)

\* the message of the Error a failed fs call rejects with; syscall is "stat",
\* "scandir" (readdir) or "open" (readFile)
FsErrorMessage(tree, deny, syscall, p) ==
    LET tail == <<syscall, " '">> \o p \o <<"'">>
    IN IF p \notin DOMAIN tree THEN <<"ENOENT: no such file or directory, ">> \o tail
       ELSE IF p \in deny THEN <<"EACCES: permission denied, ">> \o tail
       ELSE IF syscall = "scandir" THEN <<"ENOTDIR: not a directory, ">> \o tail
       ELSE <<"EISDIR: illegal operation on a directory, read">>

\* the loop of collectTopLevelEntries over the Dirents of the root
RECURSIVE topLevelLoop(_, _, _, _)
topLevelLoop(tree, root, entries, acc) ==
    IF Len(entries) = 0 THEN acc
    ELSE LET name == Head(entries)
             kind == EntryKind(tree, root, name)
             next == IF kind = "dir" THEN [acc EXCEPT !.dirs = Append(@, name)]
                     ELSE IF kind = "file" /\ isMarkdownFile(name)
                     THEN [acc EXCEPT !.files = Append(@, name)]
                     ELSE acc
         IN topLevelLoop(tree, root, Tail(entries), next)

\* referenceEntries.filter(isDirectory).map(name => `reference/${name}/`)
RECURSIVE referenceDirs(_, _, _)
referenceDirs(tree, refDir, entries) ==
    IF Len(entries) = 0 THEN <<>>
    ELSE IF EntryKind(tree, refDir, Head(entries)) = "dir"
    THEN <<sReference \o <<Slash>> \o Head(entries) \o <<Slash>>>>
         \o referenceDirs(tree, refDir, Tail(entries))
    ELSE referenceDirs(tree, refDir, Tail(entries))

\* collectTopLevelEntries: the three lists, or the directory whose readdir failed
collectTopLevelEntries(tree, deny, docRoot) ==
    LET failed(dir) == [ok |-> FALSE, failedAt |-> dir, directories |-> <<>>,
                        referenceSubdirectories |-> <<>>, files |-> <<>>]
        root == docRoot.absolutePath
        refDir == PathJoin(root, sReference)
    IN IF ~ReaddirOk(tree, deny, root) THEN failed(root)
       ELSE LET names == topLevelLoop(tree, root, tree[root].entries,
                                      [dirs |-> <<>>, files |-> <<>>])
                directoryNames == SortLocale(names.dirs)
                fileNames == SortLocale(names.files)
                hasReference == \E i \in 1..Len(directoryNames) : directoryNames[i] = sReference
            IN IF hasReference /\ ~ReaddirOk(tree, deny, refDir) THEN failed(refDir)
               ELSE [ok |-> TRUE, failedAt |-> <<>>,
                     directories |-> [i \in 1..Len(directoryNames) |->
                                          directoryNames[i] \o <<Slash>>],
                     referenceSubdirectories |->
                         IF hasReference
                         THEN SortLocale(referenceDirs(tree, refDir, tree[refDir].entries))
                         ELSE <<>>,
                     files |-> fileNames]

\* String.prototype.trim
IsWhitespace(c) == c \in {" ", Newline, "\t", "\r"}

RECURSIVE TrimStart(_)
TrimStart(s) == IF Len(s) > 0 /\ IsWhitespace(Head(s)) THEN TrimStart(Tail(s)) ELSE s

RECURSIVE TrimEnd(_)
TrimEnd(s) ==
    IF Len(s) > 0 /\ IsWhitespace(s[Len(s)]) THEN TrimEnd(SubSeq(s, 1, Len(s) - 1)) ELSE s

Trim(s) == TrimEnd(TrimStart(s))

\* items.map(item => `- ${item}`)
Bullets(items) == [i \in 1..Len(items) |-> <<BulletPrefix>> \o items[i]]

sNone == <<"- (none)">>

\* the lines of buildAvailablePaths for the lists of collectTopLevelEntries
availableLines(top, cfg) ==
    LET rootLabel == IF cfg.docRoot.relativePath = <<Dot>>
                     THEN <<"documentation root">> ELSE cfg.docRoot.relativePath
    IN << <<"Available top-level paths under \"">> \o rootLabel \o <<"\":">>, <<>>,
          <<"Directories:">> >>
       \o (IF Len(top.directories) > 0 THEN Bullets(top.directories) ELSE <<sNone>>)
       \o (IF Len(top.referenceSubdirectories) > 0
           THEN << <<>>, <<"Reference subdirectories:">> >>
                \o Bullets(top.referenceSubdirectories)
           ELSE <<>>)
       \o << <<>>, <<"Files:">> >>
       \o (IF Len(top.files) > 0 THEN Bullets(top.files) ELSE <<sNone>>)

\* buildAvailablePaths: the block, or the directory whose readdir made it reject;
\* top is the value collectTopLevelEntries returned, joined is lines.join("\n")
buildAvailablePaths(tree, deny, cfg) ==
    CHOOSE r \in
        { IF top.ok
          THEN CHOOSE t \in { [threw |-> FALSE, failedAt |-> <<>>, text |-> Trim(joined)] :
                              joined \in {JoinNewline(availableLines(top, cfg))} } : TRUE
          ELSE [threw |-> TRUE, failedAt |-> top.failedAt, text |-> <<>>] :
          top \in {collectTopLevelEntries(tree, deny, cfg.docRoot)} } : TRUE

\* the three shapes of DocResult, absent fields left empty
InvalidPath == <<"Invalid path">>

NoResult ==
    [type |-> "none", path |-> <<>>, error |-> <<>>, suggestions |-> <<>>,
     content |-> <<>>, subdirectories |-> <<>>, files |-> <<>>]

ErrorContent(p, message, suggestions) ==
    [NoResult EXCEPT !.type = "error", !.path = p, !.error = message,
                     !.suggestions = suggestions]

FileContent(p, content) == [NoResult EXCEPT !.type = "file", !.path = p, !.content = content]

DirectoryContent(p, l, suggestions) ==
    [NoResult EXCEPT !.type = "directory", !.path = p, !.subdirectories = l.dirs,
                     !.files = l.files, !.suggestions = suggestions]

\* `Path "${docPath}" not found.`
notFoundMessage(p) == <<"Path \"">> \o p \o <<"\" not found.">>

formatDirectoryContent(result) ==
    LET l1 == << <<"# Directory: ">> \o result.path \o <<Newline>> >>
        l2 == IF Len(result.subdirectories) > 0
              THEN l1 \o << <<"## Subdirectories", Newline>> >>
                      \o Bullets(result.subdirectories) \o << <<>> >>
              ELSE l1
        l3 == IF Len(result.files) > 0
              THEN l2 \o << <<"## Files", Newline>> >> \o Bullets(result.files) \o << <<>> >>
              ELSE l2
        l4 == IF result.suggestions # <<>>
              THEN l3 \o << <<"---", Newline>>, result.suggestions >>
              ELSE l3
    IN JoinNewline(l4)

\* a plausible slip: the available paths and the suggestions go into every error body
errorBody_always(result, available) ==
    JoinNewline(<<result.error>>
                \o (IF available # <<>> THEN << <<>>, available >> ELSE <<>>)
                \o (IF result.suggestions # <<>> THEN << <<>>, result.suggestions >> ELSE <<>>))

\* errorBodyLines.join("\n")
errorBody(result, available) ==
    JoinNewline(<<result.error>>
                \o (IF result.error # InvalidPath
                    THEN (IF available # <<>> THEN << <<>>, available >> ELSE <<>>)
                         \o (IF result.suggestions # <<>>
                             THEN << <<>>, result.suggestions >> ELSE <<>>)
                    ELSE <<>>))

\* one content item: the keys of its frontmatter, which the yaml library writes
\* between two "---" lines, and the body that follows the blank line
contentItem(result, available) ==
    IF result.type = "error"
    THEN [type |-> "text",
          frontmatter |-> ("path" :> result.path) @@ ("error" :> result.error),
          body |-> errorBody(result, available)]
    ELSE IF result.type = "file"
    THEN [type |-> "text", frontmatter |-> ("path" :> result.path), body |-> result.content]
    ELSE [type |-> "text",
          frontmatter |-> IF result.suggestions # <<>>
                          THEN ("path" :> result.path) @@ ("suggestions" :> result.suggestions)
                          ELSE ("path" :> result.path),
          body |-> formatDirectoryContent(result)]

\* a plausible slip: each result is pushed to the array when its task completes
collectResults_completionOrder(ts, order) == [k \in 1..Len(ts) |-> ts[order[k]].result]

\* a plausible slip: one try/catch around the whole batch, so that one failure
\* becomes the entry of every path
collectResults_sharedCatch(ts, order) ==
    IF \E i \in 1..Len(ts) : ts[i].result.type = "error"
    THEN LET f == CHOOSE i \in 1..Len(ts) : ts[i].result.type = "error"
         IN [i \in 1..Len(ts) |-> [ts[f].result EXCEPT !.path = ts[i].result.path]]
    ELSE [i \in 1..Len(ts) |-> ts[i].result]

\* Promise.all: the results in the order of args.paths; order is the order in
\* which the tasks completed
collectResults(ts, order) == [i \in 1..Len(ts) |-> ts[i].result]

(***************************************************************************)
(* The tool callback, one call at a time.  After buildAvailablePaths the   *)
(* per-path async functions of Promise.all run interleaved at their awaits *)
(* and share mdFileCache.  A scan is two steps, so that two scans can both *)
(* miss the cache: it reads the tree and the cache when it starts and      *)
(* writes the cache when it ends.  A second call asks for one path of the  *)
(* first call alone, in the same process and against the same tree.        *)
(***************************************************************************)
sApi == <<"a", "p", "i">>
sDadMd == sDad \o sMd
sMaxMd == sMax \o sMd
sTMdx == <<"T", Dot, "M", "D", "X">>
sUpMax == <<Slash, "s", Backslash, Dot, Dot, Slash, Slash>> \o sMax

\* /w/d with s/, dad.md, reference/api/ and T.MDX, in an unsorted readdir order
ToolTree ==
    (<<Slash>> :> Dir(<<<<"w">>>>)) @@ (sW :> Dir(<<sD>>))
    @@ (sRoot :> Dir(<<sS, sDadMd, sReference, sTMdx>>))
    @@ (PathJoin(sRoot, sS) :> Dir(<<sMaxMd>>))
    @@ (PathJoin(PathJoin(sRoot, sS), sMaxMd) :> File(<<sDad>>))
    @@ (PathJoin(sRoot, sDadMd) :> File(<< <<"#", " ">> \o sDad, sMax >>))
    @@ (PathJoin(sRoot, sReference) :> Dir(<<sApi>>))
    @@ (PathJoin(PathJoin(sRoot, sReference), sApi) :> Dir(<<>>))
    @@ (PathJoin(sRoot, sTMdx) :> File(<<sMax>>))

\* the directories and files whose readdir or readFile can fail with EACCES
\* the same tree with one more file in the root, whose name holds a backslash
sABmd == <<"a", Backslash, "b">> \o sMd

ToolTreeBackslash ==
    (PathJoin(sRoot, sABmd) :> File(<<sMax>>))
    @@ [ToolTree EXCEPT ![sRoot] = Dir(Append(ToolTree[sRoot].entries, sABmd))]

ToolFaults ==
    {{}, {sRoot}, {PathJoin(sRoot, sReference)}, {PathJoin(sRoot, sS)},
     {PathJoin(sRoot, sDadMd)}, {PathJoin(PathJoin(sRoot, sReference), sApi)}}

\* a file, two directories, a traversal and a missing path
ToolPaths == {sDadMd, sS, sReference, sUpMax, sMax}

ToolQueries == {<<>>, <<sMax>>}

MaxPaths == 2         \* most paths in one request (Spec)

NewTask ==
    [pc |-> "resolve",
     resolution |-> [isSecurityViolation |-> FALSE, resolved |-> NullResolved,
                     rootPrefix |-> <<>>],
     listing |-> [dirs |-> <<>>, files |-> <<>>],
     scan |-> [threw |-> FALSE, message |-> <<>>, text |-> <<>>, sets |-> <<>>],
     failure |-> <<>>,
     result |-> NoResult]

LogEvent(level, message, p) == [level |-> level, message |-> message, docPath |-> p]

\* server.sendLoggingMessage resolves, rejects or stays pending
LoggerTransports == {"resolves", "rejects", "pending"}

\* sendLog awaits the transport; a rejection is caught and the line goes to
\* console.error, so the logger call returns unless the transport stays pending
loggerReturns(t) == t \in {"resolves", "rejects"}

\* the events of a chain of awaited logger calls: the second call is made when
\* the first has returned
awaitedLogs(events, t) == IF loggerReturns(t) THEN events ELSE <<Head(events)>>

Init ==
    /\ config = DefaultConfig
    /\ transport = "resolves"
    /\ ConfigIdle
    /\ fs \in {ToolTree, ToolTreeBackslash}
    /\ denied \in ToolFaults
    /\ mdFileCache = EmptyCache
    /\ paths \in UNION {[1..n -> ToolPaths] : n \in 1..MaxPaths}
    /\ queryKeywords \in ToolQueries
    /\ tasks = <<>>
    /\ availablePaths = <<>>
    /\ response = <<>>
    /\ rejection = <<>>
    /\ logs = <<>>
    /\ completed = <<>>
    /\ fsOps = {}
    /\ callNo = 1
    /\ prevPaths = <<>>
    /\ prevResponse = <<>>
    /\ followed = 0
    /\ docPath = <<>>
    /\ norm1 = <<>>
    /\ norm2 = <<>>
    /\ resolution = [isSecurityViolation |-> FALSE, resolved |-> NullResolved, rootPrefix |-> <<>>]
    /\ listing = NoListing
    /\ listing2 = NoListing
    /\ baseDirs = <<>>
    /\ suggestion = NoSuggestion
    /\ pc = "idle"

unusedVars == <<docPath, pathVars, baseDirs, suggestion>>

\* lines 63-66: the debug log, then await buildAvailablePaths(config); when it
\* rejects, so does the callback, otherwise Promise.all starts one task per path
CallStart ==
    /\ pc = "idle"
    /\ logs' = Append(logs, LogEvent("debug", "Executing tool", <<>>))
    /\ fsOps' = fsOps \cup {[task |-> 0, op |-> "readdir"]}
    /\ \E ap \in {buildAvailablePaths(fs, denied, config)} :
          IF ap.threw
          THEN /\ pc' = "rejected"
               /\ rejection' = FsErrorMessage(fs, denied, "scandir", ap.failedAt)
               /\ UNCHANGED <<tasks, availablePaths>>
          ELSE /\ pc' = "running"
               /\ availablePaths' = ap.text
               /\ tasks' = [i \in 1..Len(paths) |-> NewTask]
               /\ UNCHANGED rejection
    /\ UNCHANGED <<envVars, mdFileCache, queryKeywords, unusedVars, paths, response,
                   completed, callNo, prevPaths, prevResponse, followed>>

\* a plausible slip: a failed read is reported like a path that was not found
catchResult_notFound(p, message) == ErrorContent(p, notFoundMessage(p), <<>>)

\* lines 90-96: the entry of a path whose task threw; message is error.message
catchResult(p, message) == ErrorContent(p, message, <<>>)

\* the log events of a failure: logger.error in the catch of readMdContent when the
\* failure is inside its try, then logger.warning in the catch of the callback
failureLogs(p, insideRead) ==
    (IF insideRead
     THEN <<LogEvent("error", "Failed to read documentation content", p)>>
     ELSE <<>>)
    \o <<LogEvent("warning", "Failed to read content for path", p)>>

\* a plausible slip: a violation is answered without the audit event
violationLogs_none(p) == <<>>

\* the audit event of a security violation, logged with the raw docPath
violationLogs(p) == <<LogEvent("error", "Path traversal attempt detected", p)>>

\* a plausible slip: the root prefix of the resolution is stored in the shared
\* configuration and not only in the returned object
ResolveTask_storesRootPrefix(i) ==
    /\ pc = "running"
    /\ i \in 1..Len(tasks)
    /\ tasks[i].pc = "resolve"
    /\ \E r \in {resolveDocPath(paths[i], config, fs)} :
          /\ config' = [config EXCEPT !.docRoot.relativePath = r.rootPrefix]
          /\ IF r.isSecurityViolation
             THEN /\ tasks' = [tasks EXCEPT ![i].resolution = r, ![i].pc = "violation"]
                  /\ logs' = logs \o violationLogs(paths[i])
                  /\ UNCHANGED fsOps
             ELSE /\ tasks' = [tasks EXCEPT ![i].resolution = r,
                                            ![i].pc = IF r.resolved.isNull THEN "scan"
                                                                           ELSE "read"]
                  /\ fsOps' = fsOps \cup {[task |-> i, op |-> "stat"]}
                  /\ UNCHANGED logs
    /\ UNCHANGED <<fs, denied, transport, configVars, mdFileCache, queryKeywords, unusedVars, paths,
                   availablePaths, response, rejection, completed, callNo, prevPaths,
                   prevResponse, followed, pc>>

\* readMdContent, lines 229-238: resolveDocPath, and the error log of a violation
ResolveTask(i) ==
    /\ pc = "running"
    /\ i \in 1..Len(tasks)
    /\ tasks[i].pc = "resolve"
    /\ \E r \in {resolveDocPath(paths[i], config, fs)} :
          IF r.isSecurityViolation
          THEN /\ tasks' = [tasks EXCEPT ![i].resolution = r, ![i].pc = "violation"]
               /\ logs' = logs \o violationLogs(paths[i])
               /\ UNCHANGED fsOps
          ELSE /\ tasks' = [tasks EXCEPT ![i].resolution = r,
                                         ![i].pc = IF r.resolved.isNull THEN "scan" ELSE "read"]
               /\ fsOps' = fsOps \cup {[task |-> i, op |-> "stat"]}
               /\ UNCHANGED logs
    /\ UNCHANGED <<envVars, mdFileCache, queryKeywords, unusedVars, paths, availablePaths,
                   response, rejection, completed, callNo, prevPaths, prevResponse,
                   followed, pc>>

\* line 232 and lines 75-81: the awaited logger.error has returned, and the
\* violation becomes the entry of the path
ReturnViolation(i) ==
    /\ pc = "running"
    /\ i \in 1..Len(tasks)
    /\ tasks[i].pc = "violation"
    /\ loggerReturns(transport)
    /\ tasks' = [tasks EXCEPT ![i].pc = "done",
                              ![i].result = ErrorContent(paths[i], InvalidPath, <<>>)]
    /\ completed' = Append(completed, i)
    /\ UNCHANGED <<envVars, mdFileCache, queryKeywords, unusedVars, paths, availablePaths,
                   response, rejection, logs, fsOps, callNo, prevPaths, prevResponse,
                   followed, pc>>

\* readMdContent, lines 240-269: stat, then readdir of a directory or readFile of
\* a file; a failure is logged twice (each logger call awaited) and becomes the entry of the path (90-96);
\* failure keeps the message of the Error that the call on the target threw
ReadTarget(i) ==
    /\ pc = "running"
    /\ i \in 1..Len(tasks)
    /\ tasks[i].pc = "read"
    /\ LET target == tasks[i].resolution.resolved.absolutePath
           fail(syscall) ==
               /\ \E message \in {FsErrorMessage(fs, denied, syscall, target)} :
                      tasks' = IF loggerReturns(transport)
                               THEN [tasks EXCEPT ![i].pc = "done",
                                                  ![i].failure = message,
                                                  ![i].result = catchResult(paths[i], message)]
                               ELSE [tasks EXCEPT ![i].pc = "logging",
                                                  ![i].failure = message]
               /\ logs' = logs \o awaitedLogs(failureLogs(paths[i], TRUE), transport)
               /\ completed' = IF loggerReturns(transport) THEN Append(completed, i)
                                                            ELSE completed
       IN IF ~StatOk(fs, target)
          THEN /\ fail("stat")
               /\ fsOps' = fsOps \cup {[task |-> i, op |-> "stat"]}
          ELSE IF fs[target].kind = "dir"
          THEN /\ fsOps' = fsOps \cup {[task |-> i, op |-> "stat"], [task |-> i, op |-> "readdir"]}
               /\ IF ReaddirOk(fs, denied, target)
                  THEN /\ tasks' = [tasks EXCEPT
                                       ![i].pc = "scan",
                                       ![i].listing =
                                           listDirContents(fs, tasks[i].resolution.rootPrefix,
                                                           tasks[i].resolution.resolved)]
                       /\ UNCHANGED <<logs, completed>>
                  ELSE fail("scandir")
          ELSE /\ fsOps' = fsOps \cup {[task |-> i, op |-> "stat"], [task |-> i, op |-> "readFile"]}
               /\ IF ReadFileOk(fs, denied, target)
                  THEN /\ tasks' = [tasks EXCEPT
                                       ![i].pc = "done",
                                       ![i].result =
                                           FileContent(paths[i], JoinNewline(fs[target].lines))]
                       /\ completed' = Append(completed, i)
                       /\ UNCHANGED logs
                  ELSE fail("open")
    /\ UNCHANGED <<envVars, mdFileCache, queryKeywords, unusedVars, paths, availablePaths,
                   response, rejection, callNo, prevPaths, prevResponse, followed, pc>>

\* getMatchingPaths(docPath, queryKeywords, [docRoot]) starts, for a directory
\* (line 246) or for a path that was not found (line 82)
ScanStart(i) ==
    /\ pc = "running"
    /\ i \in 1..Len(tasks)
    /\ tasks[i].pc = "scan"
    /\ \E r \in {getMatchingPaths(paths[i], queryKeywords, <<config.docRoot.absolutePath>>,
                                  fs, denied, mdFileCache)} :
          /\ tasks' = [tasks EXCEPT
                          ![i].pc = "scanning",
                          ![i].scan = [threw |-> r.threw,
                                       message |-> IF r.threw
                                                   THEN FsErrorMessage(fs, denied, "scandir",
                                                                       r.failedAt)
                                                   ELSE <<>>,
                                       text |-> r.text, sets |-> r.sets]]
          /\ fsOps' = IF r.threw \/ r.sets # <<>>
                      THEN fsOps \cup {[task |-> i, op |-> "readdir"]}
                      ELSE fsOps
    /\ UNCHANGED <<envVars, mdFileCache, queryKeywords, unusedVars, paths, availablePaths,
                   response, rejection, logs, completed, callNo, prevPaths, prevResponse,
                   followed, pc>>

\* getMatchingPaths ends: the cache is written, and the string becomes the
\* suggestions of the entry, or the rejection becomes the entry (90-96)
ScanEnd(i) ==
    /\ pc = "running"
    /\ i \in 1..Len(tasks)
    /\ tasks[i].pc = "scanning"
    /\ mdFileCache' = ApplyCacheSets(mdFileCache, tasks[i].scan.sets)
    /\ LET found == ~tasks[i].resolution.resolved.isNull
           scan == tasks[i].scan
       IN IF scan.threw
          THEN /\ tasks' = IF loggerReturns(transport)
                           THEN [tasks EXCEPT
                                    ![i].pc = "done",
                                    ![i].result = catchResult(paths[i], scan.message)]
                           ELSE [tasks EXCEPT ![i].pc = "logging"]
               /\ logs' = logs \o awaitedLogs(failureLogs(paths[i], found), transport)
               /\ completed' = IF loggerReturns(transport) THEN Append(completed, i)
                                                            ELSE completed
          ELSE /\ completed' = Append(completed, i)
               /\ tasks' = [tasks EXCEPT
                               ![i].pc = "done",
                               ![i].result =
                                   IF found
                                   THEN DirectoryContent(paths[i], tasks[i].listing, scan.text)
                                   ELSE ErrorContent(paths[i], notFoundMessage(paths[i]),
                                                     scan.text)]
               /\ UNCHANGED logs
    /\ UNCHANGED <<envVars, queryKeywords, unusedVars, paths, availablePaths, response,
                   rejection, fsOps, callNo, prevPaths, prevResponse, followed, pc>>

\* lines 102-159: every task has returned; the content items are built
CallReturn ==
    /\ pc = "running"
    /\ \A i \in 1..Len(tasks) : tasks[i].pc = "done"
    /\ \E results \in {collectResults(tasks, completed)} :
          response' = [i \in 1..Len(results) |-> contentItem(results[i], availablePaths)]
    /\ pc' = "returned"
    /\ UNCHANGED <<envVars, mdFileCache, queryKeywords, unusedVars, paths, tasks,
                   availablePaths, rejection, logs, completed, fsOps, callNo, prevPaths,
                   prevResponse, followed>>

\* the client asks again, for one path of the call that just returned
FollowUp(k) ==
    /\ pc = "returned"
    /\ callNo = 1
    /\ k \in 1..Len(paths)
    /\ prevPaths' = paths
    /\ prevResponse' = response
    /\ followed' = k
    /\ paths' = <<paths[k]>>
    /\ callNo' = 2
    /\ pc' = "idle"
    /\ tasks' = <<>>
    /\ availablePaths' = <<>>
    /\ response' = <<>>
    /\ logs' = <<>>
    /\ completed' = <<>>
    /\ fsOps' = {}
    /\ UNCHANGED <<envVars, mdFileCache, queryKeywords, unusedVars, rejection>>

Next ==
    \/ CallStart
    \/ \E i \in 1..MaxPaths : ResolveTask(i)
    \/ \E i \in 1..MaxPaths : ReturnViolation(i)
    \/ \E i \in 1..MaxPaths : ReadTarget(i)
    \/ \E i \in 1..MaxPaths : ScanStart(i)
    \/ \E i \in 1..MaxPaths : ScanEnd(i)
    \/ CallReturn
    \/ \E k \in 1..MaxPaths : FollowUp(k)

Spec == Init /\ [][Next]_vars

(***************************************************************************)
(* Properties of the tool callback.                                        *)
(***************************************************************************)
\* the normalized form of p has a '/'-delimited segment equal to '..'
HasDotDotSegment(p) ==
    \E seg \in SeqRange(SplitSlash(normalizeDocPath(p))) : seg = <<Dot, Dot>>

\* C1: for every requested path whose normalized form has a '..' segment,
\* resolveDocPath reports a security violation and resolves nothing, and the
\* entry of the path has error "Invalid path" and body "Invalid path" alone,
\* whatever the keywords and the tree
TraversalIsInvalidPath ==
    \A i \in 1..Len(paths) :
        HasDotDotSegment(paths[i]) =>
            /\ (pc \in {"running", "returned"} /\ tasks[i].pc # "resolve") =>
                   /\ tasks[i].resolution.isSecurityViolation
                   /\ tasks[i].resolution.resolved.isNull
            /\ pc = "returned" =>
                   /\ response[i].frontmatter = ("path" :> paths[i]) @@ ("error" :> InvalidPath)
                   /\ response[i].body = InvalidPath

\* a traversal answered next to a missing path whose entry carries both blocks
TraversalIsInvalidPathWitness ==
    /\ pc = "returned"
    /\ Len(paths) = 2
    /\ HasDotDotSegment(paths[1])
    /\ queryKeywords # <<>>
    /\ response[1].body = InvalidPath
    /\ Includes(response[2].body, <<SuggestionHeader>>)
    /\ Includes(response[2].body, <<"Directories:">>)

\* C3: the callback never rejects, and a response it returns holds an entry
\* for every requested path
CallbackNeverRejects ==
    /\ pc # "rejected"
    /\ pc = "returned" => Len(response) = Len(paths)

BatchEntryIsAloneEntry ==
    (pc = "returned" /\ callNo = 2) => response[1] = prevResponse[followed]

\* a file answered next to a failing sibling, then asked for alone
BatchEntryIsAloneEntryWitness ==
    /\ pc = "returned"
    /\ callNo = 2
    /\ Len(prevPaths) = 2
    /\ "error" \notin DOMAIN prevResponse[followed].frontmatter
    /\ \E j \in 1..2 : j # followed /\ "error" \in DOMAIN prevResponse[j].frontmatter

\* C6: the entry of a path without traversal of which no candidate exists is
\* the error `Path "<input>" not found.`, and its body is that message, then
\* the available-paths block, then the suggestion block when there is one
NotFoundEntry ==
    pc = "returned" =>
        \A i \in 1..Len(paths) :
            (~HasDotDotSegment(paths[i]) /\ tasks[i].resolution.resolved.isNull) =>
                LET message == notFoundMessage(paths[i])
                    base == message \o <<Newline, Newline>> \o availablePaths
                IN /\ response[i].frontmatter = ("path" :> paths[i]) @@ ("error" :> message)
                   /\ \/ response[i].body = base
                      \/ StartsWith(response[i].body,
                                    base \o <<Newline, Newline, SuggestionHeader, Newline>>)

(***************************************************************************)
(* The legacy text format: readMdContent of the tool whose execute returns *)
(* one string.  Its resolveDocPath and buildDisplayPath are those above.   *)
(***************************************************************************)
\* the loop of the legacy listDirContents: a file entry keeps its display path
\* and its name
RECURSIVE legacyListLoop(_, _, _, _, _)
legacyListLoop(tree, entries, rootPrefix, resolved, acc) ==
    IF Len(entries) = 0 THEN acc
    ELSE LET name == Head(entries)
             kind == EntryKind(tree, resolved.absolutePath, name)
             next ==
                 IF kind = "dir"
                 THEN [acc EXCEPT !.dirs =
                           Append(@, buildDisplayPath(resolved.relativePath, name, rootPrefix, TRUE))]
                 ELSE IF kind = "file" /\ EndsWith(name, sMd)
                 THEN [acc EXCEPT !.fileEntries =
                           Append(@, [display |-> buildDisplayPath(resolved.relativePath, name,
                                                                   rootPrefix, FALSE),
                                      name |-> name])]
                 ELSE acc
         IN legacyListLoop(tree, Tail(entries), rootPrefix, resolved, next)

\* fileEntries.sort((a, b) => a.display.localeCompare(b.display))
RECURSIVE InsertByDisplay(_, _)
InsertByDisplay(sorted, x) ==
    IF Len(sorted) = 0 THEN <<x>>
    ELSE IF LocaleCompare(x.display, sorted[Len(sorted)].display) >= 0 THEN Append(sorted, x)
    ELSE Append(InsertByDisplay(SubSeq(sorted, 1, Len(sorted) - 1), x), sorted[Len(sorted)])

RECURSIVE SortByDisplay(_)
SortByDisplay(seq) ==
    IF Len(seq) = 0 THEN <<>>
    ELSE InsertByDisplay(SortByDisplay(SubSeq(seq, 1, Len(seq) - 1)), seq[Len(seq)])

\* a plausible slip: rawFiles keeps the readdir order while files is sorted
legacyRawFiles_readdirOrder(sortedEntries, fileEntries) ==
    [i \in 1..Len(fileEntries) |-> fileEntries[i].name]

\* rawFiles: fileEntries.map((entry) => entry.name), after the sort
legacyRawFiles(sortedEntries, fileEntries) ==
    [i \in 1..Len(sortedEntries) |-> sortedEntries[i].name]

\* the legacy listDirContents, for a directory whose readdir succeeds
legacyListDirContents(tree, rootPrefix, resolved) ==
    CHOOSE r \in
        { CHOOSE l \in { [dirs |-> SortLocale(acc.dirs),
                          files |-> [i \in 1..Len(sorted) |-> sorted[i].display],
                          rawFiles |-> legacyRawFiles(sorted, acc.fileEntries)] :
                         sorted \in {SortByDisplay(acc.fileEntries)} } : TRUE :
          acc \in {legacyListLoop(tree, tree[resolved.absolutePath].entries, rootPrefix,
                                  resolved, [dirs |-> <<>>, fileEntries |-> <<>>])} } : TRUE

\* the header of a directory result
legacyHeader(p, dirs, files) ==
    JoinNewline(<< <<"Directory contents of ">> \o p \o <<":">>, <<>>,
                   IF Len(dirs) > 0 THEN <<"Subdirectories:">> ELSE <<"No subdirectories.">> >>
                \o Bullets(dirs)
                \o << <<>>,
                      IF Len(files) > 0 THEN <<"Files in this directory:">>
                      ELSE <<"No files in this directory.">> >>
                \o Bullets(files)
                \o << <<>>, <<"---">>, <<>>, <<"Contents of all files in this directory:">>,
                      <<>> >>)

\* the loop that reads rawFiles[index] and appends `\n\n# ${displayPath}\n\n${content}`;
\* it ends at the first readFile that fails
RECURSIVE legacyFileContents(_, _, _, _, _, _)
legacyFileContents(tree, deny, dir, l, index, acc) ==
    IF index > Len(l.rawFiles) THEN acc
    ELSE LET filePath == PathJoin(dir, l.rawFiles[index])
         IN IF ~ReadFileOk(tree, deny, filePath)
            THEN [threw |-> TRUE, failedAt |-> filePath, text |-> acc.text]
            ELSE legacyFileContents(tree, deny, dir, l, index + 1,
                     [acc EXCEPT !.text = @ \o <<Newline, Newline, "# ">> \o l.files[index]
                                            \o <<Newline, Newline>>
                                            \o JoinNewline(tree[filePath].lines)])

\* suggestions ? ["", "---", "", suggestions].join("\n") : ""
legacySuggestionBlock(suggestions) ==
    IF suggestions # <<>> THEN JoinNewline(<< <<>>, <<"---">>, <<>>, suggestions >>) ELSE <<>>

\* /w/d/s holds two .md files in an unsorted readdir order, a directory and a file
\* that is not listed
LegacyTree ==
    (<<Slash>> :> Dir(<<<<"w">>>>)) @@ (sW :> Dir(<<sD>>))
    @@ (sRoot :> Dir(<<sS, sDadMd>>))
    @@ (PathJoin(sRoot, sDadMd) :> File(<<sTitle>>))
    @@ (PathJoin(sRoot, sS) :> Dir(<<sMaxMd, sApi, sTMdx, sDadMd>>))
    @@ (PathJoin(PathJoin(sRoot, sS), sMaxMd) :> File(<<sDad>>))
    @@ (PathJoin(PathJoin(sRoot, sS), sApi) :> Dir(<<>>))
    @@ (PathJoin(PathJoin(sRoot, sS), sTMdx) :> File(<<sTitle>>))
    @@ (PathJoin(PathJoin(sRoot, sS), sDadMd) :> File(<< <<"#", " ">> \o sDad, sMax >>))

LegacyPaths == {sS, sD \o <<Slash>> \o sS, <<>>, sDadMd, sMax, sReference, sUpMax}

LegacyFaults == {{}, {PathJoin(PathJoin(sRoot, sS), sMaxMd)}, {PathJoin(sRoot, sS)}}

LegacyResult(found, content, error) == [found |-> found, content |-> content, error |-> error]

LegacyInit ==
    /\ config = DefaultConfig
    /\ transport = "resolves"
    /\ ConfigIdle
    /\ fs \in {LegacyTree, ToolTree}
    /\ denied \in LegacyFaults
    /\ mdFileCache = EmptyCache
    /\ docPath \in LegacyPaths
    /\ queryKeywords \in ToolQueries
    /\ norm1 = <<>>
    /\ norm2 = <<>>
    /\ resolution = [isSecurityViolation |-> FALSE, resolved |-> NullResolved, rootPrefix |-> <<>>]
    /\ listing = NoListing
    /\ listing2 = NoListing
    /\ baseDirs = <<>>
    /\ suggestion = NoSuggestion
    /\ ToolIdle
    /\ pc = "legacyInput"

\* readMdContent (legacy): resolveDocPath and the two early returns
LegacyResolve ==
    /\ pc = "legacyInput"
    /\ \E r \in {resolveDocPath(docPath, config, fs)} :
          /\ resolution' = r
          /\ pc' = IF r.isSecurityViolation \/ r.resolved.isNull
                   THEN "legacyUnresolved" ELSE "legacyResolved"
    /\ UNCHANGED <<toolVars, envVars, mdFileCache, suggestVars, docPath, norm1, norm2,
                   listing, listing2>>

\* readMdContent (legacy): stat, then the listing, the header and the content of
\* every listed file, or the content of a file; a failure is rethrown
LegacyRead ==
    /\ pc = "legacyResolved"
    /\ LET target == resolution.resolved.absolutePath
           fail(syscall, at) ==
               /\ response' = <<LegacyResult(FALSE, <<>>, FsErrorMessage(fs, denied, syscall, at))>>
               /\ pc' = "legacyDone"
               /\ UNCHANGED listing
       IN IF ~StatOk(fs, target) THEN fail("stat", target)
          ELSE IF fs[target].kind = "dir"
          THEN IF ~ReaddirOk(fs, denied, target) THEN fail("scandir", target)
               ELSE \E l \in {legacyListDirContents(fs, resolution.rootPrefix,
                                                    resolution.resolved)} :
                    \E c \in {legacyFileContents(fs, denied, target, l, 1,
                                                 [threw |-> FALSE, failedAt |-> <<>>,
                                                  text |-> <<>>])} :
                       IF c.threw
                       THEN /\ response' = <<LegacyResult(FALSE, <<>>,
                                                          FsErrorMessage(fs, denied, "open",
                                                                         c.failedAt))>>
                            /\ listing' = l
                            /\ pc' = "legacyDone"
                       ELSE /\ response' = <<LegacyResult(TRUE,
                                                 legacyHeader(docPath, l.dirs, l.files) \o c.text,
                                                 <<>>)>>
                            /\ listing' = l
                            /\ pc' = "legacyListed"
          ELSE IF ~ReadFileOk(fs, denied, target) THEN fail("open", target)
          ELSE /\ response' = <<LegacyResult(TRUE, JoinNewline(fs[target].lines), <<>>)>>
               /\ pc' = "legacyDone"
               /\ UNCHANGED listing
    /\ UNCHANGED <<envVars, mdFileCache, suggestVars, docPath, norm1, norm2, resolution,
                   listing2, paths, tasks, availablePaths, rejection, logs, completed, fsOps,
                   callNo, prevPaths, prevResponse, followed>>

\* readMdContent (legacy): the suggestions that end a directory result
LegacySuggest ==
    /\ pc = "legacyListed"
    /\ \E r \in {getMatchingPaths(docPath, queryKeywords, <<config.docRoot.absolutePath>>,
                                  fs, denied, mdFileCache)} :
          /\ suggestion' = r
          /\ mdFileCache' = r.cache
          /\ response' =
                 IF r.threw
                 THEN <<LegacyResult(FALSE, <<>>,
                                     FsErrorMessage(fs, denied, "scandir", r.failedAt))>>
                 ELSE <<LegacyResult(TRUE,
                                     response[1].content \o legacySuggestionBlock(r.text),
                                     <<>>)>>
    /\ pc' = "legacyDone"
    /\ UNCHANGED <<envVars, pathVars, docPath, queryKeywords, baseDirs, paths, tasks,
                   availablePaths, rejection, logs, completed, fsOps, callNo, prevPaths,
                   prevResponse, followed>>

LegacyNext == LegacyResolve \/ LegacyRead \/ LegacySuggest

SpecLegacy == LegacyInit /\ [][LegacyNext]_vars

\* the text of a file
ContentText(f) == JoinNewline(fs[f].lines)

\* the parts `\n\n# <display>\n\n<content>` of the listed files, in the order of files
RECURSIVE ListedContents(_, _)
ListedContents(dir, files) ==
    IF Len(files) = 0 THEN <<>>
    ELSE <<Newline, Newline, "# ">> \o Head(files) \o <<Newline, Newline>>
         \o ContentText(PathJoin(dir, LastSegment(Head(files))))
         \o ListedContents(dir, Tail(files))

ParentOf(p) == LET segs == SplitSlash(p) IN JoinSlash(SubSeq(segs, 1, Len(segs) - 1))

RECURSIVE WithoutName(_, _)
WithoutName(entries, name) ==
    IF Len(entries) = 0 THEN <<>>
    ELSE IF Head(entries) = name THEN WithoutName(Tail(entries), name)
    ELSE <<Head(entries)>> \o WithoutName(Tail(entries), name)

\* rm -r victim: the node and everything beneath it go, and its parent loses the entry
RemoveSubtree(tree, victim) ==
    LET kept == {q \in DOMAIN tree : q # victim /\ ~StartsWith(q, victim \o <<Slash>>)}
        parent == ParentOf(victim)
    IN [q \in kept |->
           IF q = parent
           THEN [tree[q] EXCEPT !.entries = WithoutName(@, LastSegment(victim))]
           ELSE tree[q]]

RacePaths == {sDadMd, sS, sMax}

RaceVictims == {PathJoin(sRoot, sDadMd), PathJoin(sRoot, sS)}

RaceFaults == {{}, {PathJoin(sRoot, sDadMd)}, {PathJoin(sRoot, sS)}}

RaceInit ==
    /\ config = DefaultConfig
    /\ transport = "resolves"
    /\ ConfigIdle
    /\ fs = ToolTree
    /\ denied \in RaceFaults
    /\ mdFileCache = EmptyCache
    /\ paths \in UNION {[1..n -> RacePaths] : n \in 1..MaxPaths}
    /\ queryKeywords \in ToolQueries
    /\ tasks = <<>>
    /\ availablePaths = <<>>
    /\ response = <<>>
    /\ rejection = <<>>
    /\ logs = <<>>
    /\ completed = <<>>
    /\ fsOps = {}
    /\ callNo = 1
    /\ prevPaths = <<>>
    /\ prevResponse = <<>>
    /\ followed = 0
    /\ docPath = <<>>
    /\ norm1 = <<>>
    /\ norm2 = <<>>
    /\ resolution = [isSecurityViolation |-> FALSE, resolved |-> NullResolved, rootPrefix |-> <<>>]
    /\ listing = NoListing
    /\ listing2 = NoListing
    /\ baseDirs = <<>>
    /\ suggestion = NoSuggestion
    /\ pc = "idle"

\* another process deletes a file or a directory while the call runs
Unlink(victim) ==
    /\ pc = "running"
    /\ fs = ToolTree
    /\ victim \in DOMAIN fs
    /\ fs' = RemoveSubtree(fs, victim)
    /\ UNCHANGED <<config, denied, transport, configVars, mdFileCache, queryKeywords, unusedVars,
                   toolVars, pc>>

RaceNext ==
    \/ CallStart
    \/ \E i \in 1..MaxPaths : ResolveTask(i)
    \/ \E i \in 1..MaxPaths : ReadTarget(i)
    \/ \E i \in 1..MaxPaths : ScanStart(i)
    \/ \E i \in 1..MaxPaths : ScanEnd(i)
    \/ CallReturn
    \/ \E victim \in RaceVictims : Unlink(victim)

SpecRace == RaceInit /\ [][RaceNext]_vars

\* C12: a path whose target was resolved (its stat succeeded) and whose later
\* stat, readdir or readFile failed has an error entry carrying the message of
\* that failure, not the not-found message; an error-level log event was
\* emitted for it; and the response holds an entry for every path
ReadFailureEntry ==
    /\ \A i \in 1..Len(tasks) :
           tasks[i].failure # <<>> =>
               /\ ~tasks[i].resolution.resolved.isNull
               /\ \E e \in SeqRange(logs) : e.level = "error" /\ e.docPath = paths[i]
    /\ pc = "returned" =>
           /\ Len(response) = Len(paths)
           /\ \A i \in 1..Len(paths) :
                  tasks[i].failure # <<>> =>
                      /\ response[i].frontmatter =
                             ("path" :> paths[i]) @@ ("error" :> tasks[i].failure)
                      /\ StartsWith(response[i].body, tasks[i].failure)
                      /\ tasks[i].failure # notFoundMessage(paths[i])
                      /\ ~Includes(response[i].body, <<"\" not found.">>)

\* a file deleted between its resolution and its read, next to a sibling whose
\* entry is found
ReadFailureEntryWitness ==
    /\ pc = "returned"
    /\ Len(paths) = 2
    /\ denied = {}
    /\ tasks[1].failure # <<>>
    /\ tasks[1].failure[1] = "ENOENT: no such file or directory, "
    /\ tasks[2].failure = <<>>
    /\ "error" \notin DOMAIN response[2].frontmatter

(***************************************************************************)
(* C13: in a suggestion scan a file whose read fails is left out of the    *)
(* scoring and the scan goes on: searchDocumentContent does not throw and  *)
(* returns, for every base directory, the ranking it returns on the tree   *)
(* without that file.                                                      *)
(***************************************************************************)
UnreadableFiles == {f \in denied : f \in DOMAIN fs /\ fs[f].kind = "file"}

UnreadableFileSkipped ==
    (/\ pc = "suggested"
     /\ AllKeywordsOf(docPath, queryKeywords) # <<>>
     /\ denied # {}
     /\ denied = UnreadableFiles) =>
        /\ ~suggestion.threw
        /\ Len(suggestion.results) = Len(baseDirs)
        /\ \A f \in denied : \A b \in 1..Len(baseDirs) :
              suggestion.results[b] =
                  searchDocumentContent(AllKeywordsOf(docPath, queryKeywords), baseDirs[b],
                                        RemoveSubtree(fs, f), {}, EmptyCache).paths

\* a scan with keywords over a tree whose unreadable file mentions one of them,
\* where files that the walk reaches after it are ranked
UnreadableFileSkippedWitness ==
    /\ pc = "suggested"
    /\ denied # {}
    /\ denied = UnreadableFiles
    /\ \E f \in denied : \E k \in SeqRange(AllKeywordsOf(docPath, queryKeywords)) :
          FileMentions(f, k)
    /\ Len(suggestion.results) = Len(baseDirs)
    /\ AName(3) \in SeqRange(suggestion.results[1])
    /\ Len(suggestion.results[1]) >= 3

(***************************************************************************)
(* C14: searchDocumentContent returns exactly the min(10, n) highest       *)
(* scoring files among the n readable .md files beneath the base directory *)
(* that have a keyword in some line, with score = totalMatches +           *)
(* 3*titleMatches + 2*pathRelevance + 5*|keywordMatches| + 10 when every   *)
(* keyword matched; a file without a keyword is never returned.            *)
(***************************************************************************)
MatchingFiles(base, kw) ==
    {f \in ScannedFiles(base) : \E k \in 1..Len(kw) : FileMentions(f, kw[k])}

\* the score of the claim, read off the file's lines and its path below the base
RankingScore(base, f, kw) ==
    LET rel == ToLowerCase(PathRelative(base, f))
        hits == {h \in (1..Len(fs[f].lines)) \X (1..Len(kw)) :
                    Includes(ToLowerCase(fs[f].lines[h[1]]), kw[h[2]])}
        titleHits == {h \in hits : \/ Includes(ToLowerCase(fs[f].lines[h[1]]), <<"#">>)
                                   \/ Includes(ToLowerCase(fs[f].lines[h[1]]), sTitle)}
        matched == {kw[h[2]] : h \in hits}
        relevance == (IF StartsWith(rel, sReference \o <<Slash>>) THEN 2 ELSE 0)
                     + 3 * Cardinality({k \in 1..Len(kw) : Includes(rel, kw[k])})
                     + (IF \/ Includes(rel, sGuides)
                           \/ Includes(rel, sGettingStarted)
                           \/ Includes(rel, sArchitecture) THEN 1 ELSE 0)
    IN Cardinality(hits) + 3 * Cardinality(titleHits) + 2 * relevance
       + 5 * Cardinality(matched)
       + (IF Cardinality(matched) = Len(kw) THEN 10 ELSE 0)

ListedOf(base, kw, ranking) ==
    {f \in MatchingFiles(base, kw) : PathRelative(base, f) \in SeqRange(ranking)}

TopRankedFiles ==
    pc = "suggested" =>
        \A b \in 1..Len(suggestion.results) :
            \E kw \in {AllKeywordsOf(docPath, queryKeywords)} :
            \E matching \in {MatchingFiles(baseDirs[b], kw)} :
            \E listed \in {ListedOf(baseDirs[b], kw, suggestion.results[b])} :
                /\ Len(suggestion.results[b]) =
                       (IF Cardinality(matching) < SuggestionLimit
                        THEN Cardinality(matching) ELSE SuggestionLimit)
                /\ Cardinality(listed) = Len(suggestion.results[b])
                /\ \A f \in listed : \A g \in matching \ listed :
                       RankingScore(baseDirs[b], f, kw) >= RankingScore(baseDirs[b], g, kw)

\* a scan that found more than 10 matching files and kept the file in the
\* subdirectory, whose score comes from its path, ahead of files scanned earlier
TopRankedFilesWitness ==
    /\ pc = "suggested"
    /\ Len(suggestion.results) >= 1
    /\ Cardinality(MatchingFiles(baseDirs[1], AllKeywordsOf(docPath, queryKeywords)))
           > SuggestionLimit
    /\ Len(suggestion.results[1]) = SuggestionLimit
    /\ sS \o <<Slash>> \o sDad \o sMd \in SeqRange(suggestion.results[1])

(***************************************************************************)
(* C15: the paths of a suggestion block stand in descending order of their *)
(* final ranking score: no listed path comes before a listed path with a   *)
(* strictly higher score.                                                  *)
(***************************************************************************)
BulletsAt(text) == {i \in 1..Len(text) : text[i] = BulletPrefix}

\* the path that follows the "- " at position p, up to the end of its line
ListedPathAt(text, p) ==
    LET ends == {q \in (p + 1)..(Len(text) + 1) : q = Len(text) + 1 \/ text[q] = Newline}
    IN SubSeq(text, p + 1, (CHOOSE q \in ends : \A q2 \in ends : q <= q2) - 1)

\* the score of a listed path: that of the file it names beneath its base directory
ListedScore(listedPath, kw) ==
    LET base == CHOOSE b \in SeqRange(baseDirs) : PathJoin(b, listedPath) \in DOMAIN fs
    IN RankingScore(base, PathJoin(base, listedPath), kw)

SuggestionDescending ==
    (pc = "suggested" /\ ~suggestion.threw) =>
        \A p1, p2 \in BulletsAt(suggestion.text) :
            p1 < p2 =>
                ListedScore(ListedPathAt(suggestion.text, p1),
                            AllKeywordsOf(docPath, queryKeywords))
                    >= ListedScore(ListedPathAt(suggestion.text, p2),
                                   AllKeywordsOf(docPath, queryKeywords))

(***************************************************************************)
(* C16: resolution tries the normalized path, then the path without a      *)
(* leading "<relativePath>/", then "." (when the normalized path is the    *)
(* root's relative path or empty), and returns the first whose stat        *)
(* succeeds: "<relativePath>/x" resolves to <root>/<relativePath>/x when   *)
(* that exists and to <root>/x when only that exists.                      *)
(***************************************************************************)
\* the location a candidate names beneath the document root
LocationOf(candidate) == PathResolve(config.docRoot.absolutePath, candidate)

HasRootPrefix(normalized) == StartsWith(normalized, config.docRoot.relativePath \o <<Slash>>)

WithoutRootPrefix(normalized) ==
    SubSeq(normalized, Len(config.docRoot.relativePath) + 2, Len(normalized))

CandidatesInOrder(normalized) ==
    <<normalized>>
    \o (IF HasRootPrefix(normalized) THEN <<WithoutRootPrefix(normalized)>> ELSE <<>>)
    \o (IF normalized = config.docRoot.relativePath \/ normalized = <<>>
        THEN <<<<Dot>>>> ELSE <<>>)

FirstCandidateWins ==
    (pc = "resolved" /\ ~resolution.isSecurityViolation) =>
        \E cands \in {CandidatesInOrder(norm1)} :
            LET found == {i \in 1..Len(cands) : StatOk(fs, LocationOf(cands[i]))}
            IN IF found = {} THEN resolution.resolved.isNull
               ELSE /\ ~resolution.resolved.isNull
                    /\ resolution.resolved.absolutePath =
                           LocationOf(cands[CHOOSE i \in found : \A j \in found : i <= j])

\* "<relativePath>/x" with <root>/<relativePath>/x missing and <root>/x present
FirstCandidateWinsWitness ==
    /\ pc = "resolved"
    /\ HasRootPrefix(norm1)
    /\ ~StatOk(fs, LocationOf(norm1))
    /\ StatOk(fs, LocationOf(WithoutRootPrefix(norm1)))
    /\ ~resolution.resolved.isNull
    /\ resolution.resolved.absolutePath = LocationOf(WithoutRootPrefix(norm1))
    /\ resolution.resolved.absolutePath # config.docRoot.absolutePath

(***************************************************************************)
(* C17: the traversal check comes before any filesystem touch: a call      *)
(* whose every requested path has traversal performs no filesystem         *)
(* operation at all, and for a traversal path no stat is issued and no     *)
(* suggestion scan is started.                                             *)
(***************************************************************************)
TraversalTouchesNothing ==
    pc \in {"running", "returned", "rejected"} =>
        /\ (\A i \in 1..Len(paths) : HasDotDotSegment(paths[i])) => fsOps = {}
        /\ \A i \in 1..Len(paths) :
              HasDotDotSegment(paths[i]) => ~\E o \in fsOps : o.task = i

(***************************************************************************)
(* C18: every security violation is audit-logged: before the "Invalid      *)
(* path" entry of a traversal path is returned, exactly one error-level    *)
(* log event carrying the raw requested path has been emitted for it.      *)
(***************************************************************************)
ErrorEventsFor(p) == {k \in 1..Len(logs) : logs[k].level = "error" /\ logs[k].docPath = p}

\* the tasks of path p whose violation has been detected, answered or not yet
ViolationsOf(p) ==
    {i \in 1..Len(tasks) : paths[i] = p /\ tasks[i].pc \in {"violation", "done"}}

ViolationAuditLogged ==
    pc \in {"running", "returned"} =>
        /\ \A p \in SeqRange(paths) :
              HasDotDotSegment(p) =>
                  Cardinality(ErrorEventsFor(p)) = Cardinality(ViolationsOf(p))
        /\ pc = "returned" =>
              \A i \in 1..Len(paths) :
                  response[i].body = InvalidPath =>
                      Cardinality(ErrorEventsFor(paths[i]))
                          = Cardinality({j \in 1..Len(paths) : paths[j] = paths[i]})

\* a returned call with one traversal path among two, its entry and its one event
ViolationAuditLoggedWitness ==
    /\ pc = "returned"
    /\ Len(paths) = 2
    /\ HasDotDotSegment(paths[1])
    /\ ~HasDotDotSegment(paths[2])
    /\ response[1].body = InvalidPath
    /\ Cardinality(ErrorEventsFor(paths[1])) = 1
    /\ \E k \in 1..Len(logs) : logs[k].level = "warning"

(***************************************************************************)
(* The callback with a logger bound to a server (createLogger(server), as  *)
(* serve does): the transport of the log messages may resolve, reject or   *)
(* stay pending for the whole call.                                        *)
(***************************************************************************)
LogPaths == {sUpMax, sDadMd, sMax}

LogInit ==
    /\ config = DefaultConfig
    /\ transport \in LoggerTransports
    /\ ConfigIdle
    /\ fs = ToolTree
    /\ denied \in ToolFaults
    /\ mdFileCache = EmptyCache
    /\ paths \in UNION {[1..n -> LogPaths] : n \in 1..MaxPaths}
    /\ queryKeywords \in ToolQueries
    /\ tasks = <<>>
    /\ availablePaths = <<>>
    /\ response = <<>>
    /\ rejection = <<>>
    /\ logs = <<>>
    /\ completed = <<>>
    /\ fsOps = {}
    /\ callNo = 1
    /\ prevPaths = <<>>
    /\ prevResponse = <<>>
    /\ followed = 0
    /\ docPath = <<>>
    /\ norm1 = <<>>
    /\ norm2 = <<>>
    /\ resolution = [isSecurityViolation |-> FALSE, resolved |-> NullResolved, rootPrefix |-> <<>>]
    /\ listing = NoListing
    /\ listing2 = NoListing
    /\ baseDirs = <<>>
    /\ suggestion = NoSuggestion
    /\ pc = "idle"

LogNext ==
    \/ CallStart
    \/ \E i \in 1..MaxPaths : ResolveTask(i)
    \/ \E i \in 1..MaxPaths : ReturnViolation(i)
    \/ \E i \in 1..MaxPaths : ReadTarget(i)
    \/ \E i \in 1..MaxPaths : ScanStart(i)
    \/ \E i \in 1..MaxPaths : ScanEnd(i)
    \/ CallReturn

SpecLog == LogInit /\ [][LogNext]_vars

(***************************************************************************)
(* C19: logging never blocks or fails a tool call: the core does not wait  *)
(* on the logger's transport, so no task of a running call is ever held at *)
(* a logger call that does not return, also when the transport rejects or  *)
(* never settles, and the entry of its path is produced.                   *)
(***************************************************************************)
\* task i stands at an awaited logger call: line 232, line 267 or line 91
AwaitsLogger(i) == tasks[i].pc \in {"violation", "logging"}

LoggingNeverBlocks ==
    pc = "running" =>
        \A i \in 1..Len(tasks) : AwaitsLogger(i) => loggerReturns(transport)

(***************************************************************************)
(* C20: whenever resolveDocPath resolves a request to the document root    *)
(* itself, the relativePath it returns is ".".                             *)
(***************************************************************************)
RootIsDot ==
    (/\ pc = "resolved"
     /\ ~resolution.resolved.isNull
     /\ resolution.resolved.absolutePath = config.docRoot.absolutePath)
        => resolution.resolved.relativePath = <<Dot>>

(***************************************************************************)
(* C21: after a walk of directory D has run to completion, every later     *)
(* walk of D yields the file list that walk recorded: the cache entry of D *)
(* is never invalidated or rewritten, whatever is created or removed under *)
(* D.                                                                      *)
(***************************************************************************)
CacheEntryKept ==
    [][\A d \in DOMAIN mdFileCache :
          d \in DOMAIN mdFileCache' /\ mdFileCache'[d] = mdFileCache[d]]_vars

(***************************************************************************)
(* C22: the file-list cache entry of a directory is populated at most      *)
(* once: two suggestion scans of one call that start concurrently share a  *)
(* single walk, so the directory is read once and its entry written once.  *)
(***************************************************************************)
\* the tasks whose scan walked directory d itself and wrote its cache entry
WalkersOf(d) ==
    {i \in 1..Len(tasks) :
        \E k \in 1..Len(tasks[i].scan.sets) : tasks[i].scan.sets[k][1] = d}

PopulatedOnce ==
    pc \in {"running", "returned"} =>
        \A d \in DOMAIN fs : Cardinality(WalkersOf(d)) <= 1

(***************************************************************************)
(* C23: a tool call writes no shared mutable state other than the          *)
(* file-list cache: no step of it changes the filesystem or the            *)
(* configuration, and every filesystem operation it issues is a read.      *)
(***************************************************************************)
ReadOperations == {"stat", "readdir", "readFile"}

ToolCallFrame ==
    [][/\ fs' = fs
       /\ denied' = denied
       /\ config' = config
       /\ \A o \in fsOps' : o.op \in ReadOperations]_vars

\* a returned call that answered a violation and scanned the tree for its other
\* path, and left the cache as its only trace
ToolCallFrameWitness ==
    /\ pc = "returned"
    /\ mdFileCache # EmptyCache
    /\ \E o \in fsOps : o.op = "stat"
    /\ \E o \in fsOps : o.op = "readdir" /\ o.task > 0
    /\ \E i \in 1..Len(paths) : response[i].body = InvalidPath
    /\ fs = ToolTree
    /\ config = DefaultConfig

(***************************************************************************)
(* C24: for a scanned file, totalMatches is the number of (line, keyword)  *)
(* pairs in which the lowercased line contains the keyword, one count per  *)
(* pair however often the keyword occurs in the line; keywordMatches is    *)
(* the set of keywords with such a pair; titleMatches counts the pairs     *)
(* whose line contains "#" or "title"; hence titleMatches <= totalMatches  *)
(* and |keywordMatches| <= the number of keywords.                         *)
(***************************************************************************)
\* the (line, keyword) pairs of file f, read off the tree
MatchPairs(f, kw) ==
    {h \in (1..Len(fs[f].lines)) \X (1..Len(kw)) :
        Includes(ToLowerCase(fs[f].lines[h[1]]), ToLowerCase(kw[h[2]]))}

TitleLine(f, l) ==
    \/ Includes(ToLowerCase(fs[f].lines[l]), <<"#">>)
    \/ Includes(ToLowerCase(fs[f].lines[l]), sTitle)

Occurrences(line, word) ==
    Cardinality({i \in 1..Len(line) :
                    i + Len(word) - 1 <= Len(line)
                    /\ SubSeq(line, i, i + Len(word) - 1) = word})

FileScoreCounts ==
    pc = "suggested" =>
        \A b \in 1..Len(suggestion.scored) : \A n \in 1..Len(suggestion.scored[b]) :
            \E kw \in {AllKeywordsOf(docPath, queryKeywords)} :
            \E sc \in {suggestion.scored[b][n]} :
            \E pairs \in {MatchPairs(PathJoin(baseDirs[b], sc.path), kw)} :
                /\ sc.totalMatches = Cardinality(pairs)
                /\ sc.keywordMatches = {kw[h[2]] : h \in pairs}
                /\ sc.titleMatches =
                       Cardinality({h \in pairs :
                                       TitleLine(PathJoin(baseDirs[b], sc.path), h[1])})
                /\ sc.titleMatches <= sc.totalMatches
                /\ Cardinality(sc.keywordMatches) <= Len(kw)

\* a scan that scored a file with two keywords in one line and a title line, and
\* another file whose one line holds its keyword twice
FileScoreCountsWitness ==
    /\ pc = "suggested"
    /\ Len(suggestion.scored) = 2
    /\ \E n \in 1..Len(suggestion.scored[1]) :
          /\ suggestion.scored[1][n].totalMatches = 3
          /\ suggestion.scored[1][n].titleMatches = 1
          /\ Cardinality(suggestion.scored[1][n].keywordMatches) = 2
    /\ \E n \in 1..Len(suggestion.scored[2]) :
          \E f \in {PathJoin(baseDirs[2], suggestion.scored[2][n].path)} :
              /\ Len(fs[f].lines) = 1
              /\ Occurrences(fs[f].lines[1], sDad) = 2
              /\ suggestion.scored[2][n].totalMatches = 1

(***************************************************************************)
(* C25: the keyword set of a scan is the union of (a) the tokens of the    *)
(* final "/"-separated segment of the requested path, after removing one   *)
(* trailing .md/.mdx extension in any case, splitting at "-", "_" and      *)
(* before each uppercase letter, and keeping the tokens longer than 2      *)
(* characters, and (b) the query keywords split on whitespace; every       *)
(* keyword of the set is lowercase, non-empty and present once.            *)
(***************************************************************************)
FinalSegment(p) ==
    LET slashes == {i \in 1..Len(p) : p[i] = Slash}
    IN IF slashes = {} THEN p
       ELSE SubSeq(p, (CHOOSE i \in slashes : \A j \in slashes : j <= i) + 1, Len(p))

WithoutExtension(name) ==
    IF EndsWith(ToLowerCase(name), <<Dot, "m", "d", "x">>) THEN SubSeq(name, 1, Len(name) - 4)
    ELSE IF EndsWith(ToLowerCase(name), <<Dot, "m", "d">>) THEN SubSeq(name, 1, Len(name) - 3)
    ELSE name

IsSeparator(c) == c \in {"-", "_"}

\* the maximal pieces of name between separators and uppercase boundaries
TokensOf(name) ==
    {SubSeq(name, i, j) : <<i, j>> \in
        {t \in (1..Len(name)) \X (1..Len(name)) :
            /\ t[1] <= t[2]
            /\ \A k \in t[1]..t[2] : ~IsSeparator(name[k])
            /\ \A k \in (t[1] + 1)..t[2] : ~IsUpperCase(name[k])
            /\ t[1] = 1 \/ IsSeparator(name[t[1] - 1]) \/ IsUpperCase(name[t[1]])
            /\ t[2] = Len(name) \/ IsSeparator(name[t[2] + 1]) \/ IsUpperCase(name[t[2] + 1])}}

\* the maximal pieces of word between whitespace
WordsOf(word) ==
    {SubSeq(word, i, j) : <<i, j>> \in
        {t \in (1..Len(word)) \X (1..Len(word)) :
            /\ t[1] <= t[2]
            /\ \A k \in t[1]..t[2] : ~IsWhitespace(word[k])
            /\ t[1] = 1 \/ IsWhitespace(word[t[1] - 1])
            /\ t[2] = Len(word) \/ IsWhitespace(word[t[2] + 1])}}

ExpectedKeywords(p, q) ==
    {ToLowerCase(t) : t \in {u \in TokensOf(WithoutExtension(FinalSegment(p))) : Len(u) > 2}}
    \cup UNION {{ToLowerCase(w) : w \in WordsOf(q[i])} : i \in 1..Len(q)}

KeywordSet ==
    pc = "suggested" =>
        /\ SeqRange(suggestion.keywords) = ExpectedKeywords(docPath, queryKeywords)
        /\ Cardinality(SeqRange(suggestion.keywords)) = Len(suggestion.keywords)
        /\ \A k \in 1..Len(suggestion.keywords) :
              /\ suggestion.keywords[k] # <<>>
              /\ suggestion.keywords[k] = ToLowerCase(suggestion.keywords[k])


(***************************************************************************)
(* The config module: loadConfig, getConfig, clearConfigCache and the      *)
(* module-level cachedConfig.                                              *)
(*                                                                         *)
(* A config file is a file node whose first line tells whether the text is *)
(* a JSON object with the fields name, package and version, and whose      *)
(* second line, when there is one, is the value of its docs field.         *)
(***************************************************************************)
MaxCalls == 4         \* most calls of the config module in one run (SpecConfig)

sDocs == <<"d", "o", "c", "s">>
sBundle == <<Slash, "b", "u", "n", "d", "l", "e">>
sCwd == <<Slash, "d">>
CONFIG_FILENAME == <<"mcp-docs-server.json">>
sBadJson == <<"bad.json">>
sJsonObject == <<"{">>

NoDocs == [given |-> FALSE, value |-> <<>>]
DocsOf(value) == [given |-> TRUE, value |-> value]

\* configSchema.parse(JSON.parse(fileContents))
parseConfig(lines) ==
    IF Len(lines) = 0 \/ lines[1] # sJsonObject
    THEN [threw |-> TRUE, docs |-> NoDocs]
    ELSE [threw |-> FALSE,
          docs |-> IF Len(lines) >= 2 THEN DocsOf(lines[2]) ELSE NoDocs]

ConfigFile(docs) ==
    File(IF docs.given THEN <<sJsonObject, docs.value>> ELSE <<sJsonObject>>)

\* the tree of a project at /d whose config file has the given docs field,
\* next to a bundle at /bundle
ConfigTree(docs) ==
    (<<Slash>> :> Dir(<<sD, <<"b", "u", "n", "d", "l", "e">>>>))
    @@ (sCwd :> Dir(<<sD, <<"d", "d">>, sDocs, CONFIG_FILENAME, sBadJson>>))
    @@ (PathJoin(sCwd, sD) :> Dir(<<sD>>))
    @@ (PathJoin(PathJoin(sCwd, sD), sD) :> Dir(<<>>))
    @@ (PathJoin(sCwd, <<"d", "d">>) :> File(<<sDad>>))
    @@ (PathJoin(sCwd, sDocs) :> Dir(<<>>))
    @@ (PathJoin(sCwd, CONFIG_FILENAME) :> ConfigFile(docs))
    @@ (PathJoin(sCwd, sBadJson) :> File(<<sDad>>))
    @@ (sBundle :> Dir(<<sD, CONFIG_FILENAME>>))
    @@ (PathJoin(sBundle, sD) :> Dir(<<>>))
    @@ (PathJoin(sBundle, CONFIG_FILENAME) :> ConfigFile(DocsOf(sD)))

\* path.isAbsolute on a POSIX host
PathIsAbsolute(p) == StartsWith(p, <<Slash>>)

\* path.basename on a POSIX host: trailing slashes are dropped, then the part
\* after the last slash is taken
RECURSIVE PathBasename(_)
PathBasename(p) ==
    IF p = <<>> THEN <<>>
    ELSE IF p[Len(p)] = Slash THEN PathBasename(SubSeq(p, 1, Len(p) - 1))
    ELSE LET segments == SplitSlash(p) IN segments[Len(segments)]

\* path.dirname of an absolute path that path.resolve returned
PathDirname(p) ==
    LET segments == SplitSlash(p)
    IN IF Len(segments) <= 2 THEN <<Slash>>
       ELSE JoinSlash(SubSeq(segments, 1, Len(segments) - 1))

DocDirThrew == [threw |-> TRUE, value |-> <<>>]

normalizeDocDir(dir) ==
    LET n1 == ReplaceBackslashes(dir)
        n2 == StripLeadingSlashes(n1)
        n3 == CollapseSlashes(n2)
        normalized == IF EndsWith(n3, <<Slash>>) THEN SubSeq(n3, 1, Len(n3) - 1) ELSE n3
        segments == SplitSlash(normalized)
    IN IF normalized = <<Dot>> THEN DocDirThrew
       ELSE IF \E i \in 1..Len(segments) : segments[i] = <<Dot, Dot>> THEN DocDirThrew
       ELSE [threw |-> FALSE, value |-> IF Len(normalized) = 0 THEN sDocs ELSE normalized]


LoadOptions(configPath, docs) == [configPath |-> configPath, docs |-> docs]

LoadThrew(message) ==
    [threw |-> TRUE, message |-> message,
     config |-> [docRoot |-> [relativePath |-> <<>>, absolutePath |-> <<>>],
                 configPath |-> <<>>, rootDir |-> <<>>, useReaddirMap |-> FALSE]]

Loaded(docRoot, configPath, rootDir, isVFS) ==
    [threw |-> FALSE, message |-> "",
     config |-> [docRoot |-> docRoot, configPath |-> configPath, rootDir |-> rootDir,
                 useReaddirMap |-> isVFS]]

\* the docRoot that loadConfig computes from the --docs option and the docs
\* field of the config file
loadDocRoot(options, rawDocs, isVFS, rootDir) ==
    IF Len(options.docs) > 0
    THEN IF isVFS \/ StartsWith(options.docs, sBundle \o <<Slash>>)
         THEN LET stripped == IF StartsWith(options.docs, sBundle \o <<Slash>>)
                              THEN SliceFrom(options.docs, Len(sBundle) + 1)
                              ELSE options.docs
                  docsDir == normalizeDocDir(stripped)
              IN [threw |-> docsDir.threw, relativePath |-> docsDir.value,
                  absolutePath |-> sBundle \o <<Slash>> \o docsDir.value]
         ELSE IF PathIsAbsolute(options.docs)
         THEN [threw |-> FALSE, relativePath |-> PathBasename(options.docs),
               absolutePath |-> PathResolve(sCwd, options.docs)]
         ELSE LET docsDir == normalizeDocDir(options.docs)
              IN [threw |-> docsDir.threw, relativePath |-> docsDir.value,
                  absolutePath |-> PathResolve(rootDir, docsDir.value)]
    ELSE LET docsDir == normalizeDocDir(IF rawDocs.given THEN rawDocs.value ELSE sDocs)
         IN [threw |-> docsDir.threw, relativePath |-> docsDir.value,
             absolutePath |-> IF isVFS THEN sBundle \o <<Slash>> \o docsDir.value
                              ELSE PathResolve(rootDir, docsDir.value)]

\* what ensureDirectoryExists throws, "" when it returns
ensureDirectoryExists(tree, absolutePath) ==
    IF ~StatOk(tree, absolutePath) THEN "Documentation directory not found"
    ELSE IF tree[absolutePath].kind # "dir" THEN "Expected directory"
    ELSE ""

\* loadConfig past its cache test: the config it builds from the files, or
\* the error it throws
loadConfig(tree, deny, options) ==
    LET isVFS == StartsWith(options.configPath, sBundle \o <<Slash>>)
        configPath == IF isVFS THEN options.configPath
                      ELSE IF Len(options.configPath) > 0
                      THEN PathResolve(sCwd, options.configPath)
                      ELSE PathResolve(sCwd, CONFIG_FILENAME)
        rootDir == IF isVFS THEN sBundle ELSE PathDirname(configPath)
    IN IF ~StatOk(tree, configPath) THEN LoadThrew("Configuration file not found")
       ELSE IF ~ReadFileOk(tree, deny, configPath) THEN LoadThrew("Failed to read")
       ELSE LET rawConfig == parseConfig(tree[configPath].lines)
            IN IF rawConfig.threw THEN LoadThrew("Invalid JSON")
               ELSE LET root == loadDocRoot(options, rawConfig.docs, isVFS, rootDir)
                        docRoot == [relativePath |-> root.relativePath,
                                    absolutePath |-> root.absolutePath]
                    IN IF root.threw THEN LoadThrew("Doc directory")
                       ELSE IF ~isVFS /\ ensureDirectoryExists(tree, root.absolutePath) # ""
                       THEN LoadThrew(ensureDirectoryExists(tree, root.absolutePath))
                       ELSE Loaded(docRoot, configPath, rootDir, isVFS)

\* one finished call of the config module: what it returned or threw, and the
\* cache before and after it; for a loadConfig also the cache when it was called
CallRecord(op, options, atCall, threw, message, value, before, after) ==
    [op |-> op, options |-> options, atCall |-> atCall, threw |-> threw,
     message |-> message, value |-> value, before |-> before, after |-> after]

NoOptions == LoadOptions(<<>>, <<>>)

\* a plausible slip: loadConfig without its cache test
LoadStart_ignoresCache(options) ==
    /\ callsLeft > 0
    /\ callsLeft' = callsLeft - 1
    /\ loading' = Append(loading, [options |-> options, atCall |-> cachedConfig])
    /\ UNCHANGED <<cachedConfig, history>>
    /\ UNCHANGED <<config, fs, denied, transport, mdFileCache, docPath, pathVars,
                   suggestVars, pc, toolVars>>

\* loadConfig is called: a cached config is returned at once, otherwise the
\* call goes on to await the filesystem
LoadStart(options) ==
    /\ callsLeft > 0
    /\ callsLeft' = callsLeft - 1
    /\ IF cachedConfig # <<>>
       THEN /\ history' = Append(history,
                             CallRecord("loadConfig", options, cachedConfig, FALSE, "",
                                        cachedConfig, cachedConfig, cachedConfig))
            /\ UNCHANGED <<cachedConfig, loading>>
       ELSE /\ loading' = Append(loading, [options |-> options, atCall |-> cachedConfig])
            /\ UNCHANGED <<cachedConfig, history>>
    /\ UNCHANGED <<config, fs, denied, transport, mdFileCache, docPath, pathVars,
                   suggestVars, pc, toolVars>>

\* a loadConfig call that awaited the filesystem throws, or stores the config
\* it built in cachedConfig and returns it
LoadEnd(k) ==
    /\ k \in 1..Len(loading)
    /\ \E r \in {loadConfig(fs, denied, loading[k].options)} :
          /\ cachedConfig' = IF r.threw THEN cachedConfig ELSE <<r.config>>
          /\ history' = Append(history,
                           CallRecord("loadConfig", loading[k].options, loading[k].atCall,
                                      r.threw, r.message,
                                      IF r.threw THEN <<>> ELSE <<r.config>>,
                                      cachedConfig,
                                      IF r.threw THEN cachedConfig ELSE <<r.config>>))
    /\ loading' = [j \in 1..(Len(loading) - 1) |-> IF j < k THEN loading[j] ELSE loading[j + 1]]
    /\ UNCHANGED callsLeft
    /\ UNCHANGED <<config, fs, denied, transport, mdFileCache, docPath, pathVars,
                   suggestVars, pc, toolVars>>

GetConfig ==
    /\ callsLeft > 0
    /\ callsLeft' = callsLeft - 1
    /\ history' = Append(history,
                     IF cachedConfig = <<>>
                     THEN CallRecord("getConfig", NoOptions, <<>>, TRUE,
                                     "Config not loaded. Call loadConfig() first.",
                                     <<>>, cachedConfig, cachedConfig)
                     ELSE CallRecord("getConfig", NoOptions, <<>>, FALSE, "",
                                     cachedConfig, cachedConfig, cachedConfig))
    /\ UNCHANGED <<cachedConfig, loading>>
    /\ UNCHANGED <<config, fs, denied, transport, mdFileCache, docPath, pathVars,
                   suggestVars, pc, toolVars>>

ClearConfigCache ==
    /\ callsLeft > 0
    /\ callsLeft' = callsLeft - 1
    /\ cachedConfig' = <<>>
    /\ history' = Append(history,
                     CallRecord("clearConfigCache", NoOptions, <<>>, FALSE, "", <<>>,
                                cachedConfig, <<>>))
    /\ UNCHANGED loading
    /\ UNCHANGED <<config, fs, denied, transport, mdFileCache, docPath, pathVars,
                   suggestVars, pc, toolVars>>

\* the options of the loadConfig calls of SpecConfig: the defaults, an absolute
\* and a relative --docs, a file as --docs, a config file that is missing, one
\* that is not JSON, and the bundle
ConfigOptions ==
    {NoOptions,
     LoadOptions(<<>>, sCwd \o <<Slash>> \o sD \o <<Slash>> \o sD),
     LoadOptions(<<>>, sDocs),
     LoadOptions(<<>>, <<"d", "d">>),
     LoadOptions(sCwd \o <<Slash>> \o sD \o <<Slash>> \o CONFIG_FILENAME, <<>>),
     LoadOptions(sCwd \o <<Slash>> \o sBadJson, <<>>),
     LoadOptions(sBundle \o <<Slash>> \o CONFIG_FILENAME, <<>>)}

ConfigInit ==
    /\ config = DefaultConfig
    /\ transport = "resolves"
    /\ fs = ConfigTree(DocsOf(sD))
    /\ denied = {}
    /\ mdFileCache = EmptyCache
    /\ docPath = <<>>
    /\ queryKeywords = <<>>
    /\ norm1 = <<>>
    /\ norm2 = <<>>
    /\ resolution = [isSecurityViolation |-> FALSE, resolved |-> NullResolved, rootPrefix |-> <<>>]
    /\ listing = NoListing
    /\ listing2 = NoListing
    /\ baseDirs = <<>>
    /\ suggestion = NoSuggestion
    /\ ToolIdle
    /\ pc = "config"
    /\ cachedConfig = <<>>
    /\ loading = <<>>
    /\ history = <<>>
    /\ callsLeft = MaxCalls

ConfigNext ==
    \/ \E options \in ConfigOptions : LoadStart(options)
    \/ \E k \in 1..MaxCalls : LoadEnd(k)
    \/ GetConfig
    \/ ClearConfigCache

SpecConfig == ConfigInit /\ [][ConfigNext]_vars


(***************************************************************************)
(* loadConfig over the values of the docs field and of the --docs option:  *)
(* one call in a fresh process, for a config file with any docs field and  *)
(* no option, or for a config file without a docs field and any option.    *)
(***************************************************************************)
MaxBundleLen == 2     \* longest --docs value enumerated below /bundle/

DocsValues == StringsUpTo(MaxLen)

BundleDocsValues == {sBundle \o <<Slash>> \o v : v \in StringsUpTo(MaxBundleLen)}

DocRootOptions(tree) ==
    IF tree = ConfigTree(NoDocs)
    THEN {LoadOptions(<<>>, v) : v \in DocsValues \cup BundleDocsValues}
    ELSE {NoOptions}

DocRootInit ==
    /\ config = DefaultConfig
    /\ transport = "resolves"
    /\ fs \in {ConfigTree(NoDocs)} \cup {ConfigTree(DocsOf(v)) : v \in DocsValues}
    /\ denied = {}
    /\ mdFileCache = EmptyCache
    /\ docPath = <<>>
    /\ queryKeywords = <<>>
    /\ norm1 = <<>>
    /\ norm2 = <<>>
    /\ resolution = [isSecurityViolation |-> FALSE, resolved |-> NullResolved, rootPrefix |-> <<>>]
    /\ listing = NoListing
    /\ listing2 = NoListing
    /\ baseDirs = <<>>
    /\ suggestion = NoSuggestion
    /\ ToolIdle
    /\ pc = "docRoot"
    /\ cachedConfig = <<>>
    /\ loading = <<>>
    /\ history = <<>>
    /\ callsLeft = 1

DocRootNext ==
    \/ \E options \in DocRootOptions(fs) : LoadStart(options)
    \/ LoadEnd(1)

SpecDocRoot == DocRootInit /\ [][DocRootNext]_vars


(***************************************************************************)
(* C26: over every sequence of loadConfig, getConfig and clearConfigCache  *)
(* calls, getConfig returns a config exactly when some loadConfig          *)
(* succeeded after the last clearConfigCache and otherwise throws "Config  *)
(* not loaded"; a loadConfig that fails leaves the cached config           *)
(* unchanged; and a loadConfig made while a config is cached returns that  *)
(* cached config, unchanged, whatever its options.                         *)
(***************************************************************************)
LoadedSinceClear(n) ==
    \E j \in 1..n :
        /\ history[j].op = "loadConfig"
        /\ ~history[j].threw
        /\ \A m \in (j + 1)..n : history[m].op # "clearConfigCache"

ConfigSingleton ==
    pc = "config" =>
        \A i \in 1..Len(history) :
            LET c == history[i]
            IN /\ c.op = "getConfig" =>
                    /\ ~c.threw <=> LoadedSinceClear(i - 1)
                    /\ c.threw => c.message = "Config not loaded. Call loadConfig() first."
                    /\ ~c.threw => c.value # <<>> /\ c.value = c.before
                    /\ c.after = c.before
               /\ c.op = "loadConfig" /\ c.threw => c.after = c.before
               /\ c.op = "loadConfig" /\ c.atCall # <<>> =>
                    /\ ~c.threw
                    /\ c.value = c.atCall
                    /\ c.before = c.atCall
                    /\ c.after = c.atCall

ConfigSingletonWitness ==
    /\ pc = "config"
    /\ \E i \in 1..Len(history) :
          /\ history[i].op = "loadConfig"
          /\ history[i].threw
          /\ history[i].before # <<>>
    /\ \E i \in 1..Len(history) :
          /\ history[i].op = "loadConfig"
          /\ history[i].atCall # <<>>
          /\ loadConfig(fs, denied, history[i].options).threw
    /\ \E i \in 1..Len(history) : history[i].op = "getConfig" /\ ~history[i].threw

(***************************************************************************)
(* C27: every DocRoot that loadConfig produces has a relativePath that is  *)
(* not ".", has no ".." segment and is in normalized form, for every       *)
(* accepted docs field and --docs option, an absolute path included.       *)
(***************************************************************************)
DocRootWellFormed ==
    pc = "docRoot" =>
        \A i \in 1..Len(history) :
            (history[i].op = "loadConfig" /\ ~history[i].threw) =>
                LET rel == history[i].value[1].docRoot.relativePath
                IN /\ rel # <<Dot>>
                   /\ ~hasTraversal(rel)
                   /\ normalizeDocPath(rel) = rel


(***************************************************************************)
(* C28: with an unchanging document tree, every entry of the file-list     *)
(* cache for a directory D holds exactly the files whose name ends in      *)
(* ".md" at any depth under D, each once, and D has an entry only when D   *)
(* and every directory under it could be enumerated: a walk that fails     *)
(* part-way leaves no entry for D.                                         *)
(***************************************************************************)
IsUnder(p, d) == StartsWith(p, d \o <<Slash>>)

MdFilesUnder(d) ==
    {f \in DOMAIN fs : fs[f].kind = "file" /\ IsUnder(f, d) /\ EndsWith(f, <<Dot, "m", "d">>)}

DirsUnder(d) ==
    {e \in DOMAIN fs : fs[e].kind = "dir" /\ (e = d \/ IsUnder(e, d))}

CacheEntriesExact ==
    pc \in {"running", "returned"} =>
        \A d \in DOMAIN mdFileCache :
            LET files == mdFileCache[d]
            IN /\ {files[i] : i \in 1..Len(files)} = MdFilesUnder(d)
               /\ \A i, j \in 1..Len(files) : files[i] = files[j] => i = j
               /\ \A e \in DirsUnder(d) : ReaddirOk(fs, denied, e)

\* a walk of the root failed at a subdirectory after another subdirectory was
\* enumerated: the finished subdirectory has its entry, the root has none
CacheEntriesExactWitness ==
    /\ pc \in {"running", "returned"}
    /\ \E e \in DirsUnder(config.docRoot.absolutePath) : ~ReaddirOk(fs, denied, e)
    /\ \E i \in 1..Len(tasks) : tasks[i].pc = "done" /\ tasks[i].scan.threw
    /\ \E d \in DOMAIN mdFileCache : mdFileCache[d] # <<>>
    /\ config.docRoot.absolutePath \notin DOMAIN mdFileCache


(***************************************************************************)
(* C29: a file or subdirectory path requested exactly as a directory       *)
(* listing displays it, with the root's relative-path prefix, resolves to  *)
(* that same file or subdirectory, in every document tree, also in one     *)
(* that holds a subdirectory named like the root's relative path.          *)
(***************************************************************************)
\* the entries of the listed directory that the listing displays
ListedEntries ==
    LET dir == resolution.resolved.absolutePath
        names == fs[dir].entries
    IN {names[i] : i \in {j \in 1..Len(names) :
                             \/ EntryKind(fs, dir, names[j]) = "dir"
                             \/ EntryKind(fs, dir, names[j]) = "file" /\ listsFile(names[j])}}

DisplayedAs(name) ==
    buildDisplayPath(resolution.resolved.relativePath, name, resolution.rootPrefix,
                     EntryKind(fs, resolution.resolved.absolutePath, name) = "dir")

ListedPathResolves ==
    pc = "listed" =>
        \A name \in ListedEntries :
            LET again == resolveDocPath(DisplayedAs(name), config, fs)
            IN /\ \/ \E i \in 1..Len(listing.dirs) : listing.dirs[i] = DisplayedAs(name)
                  \/ \E i \in 1..Len(listing.files) : listing.files[i] = DisplayedAs(name)
               /\ ~again.isSecurityViolation
               /\ ~again.resolved.isNull
               /\ again.resolved.absolutePath = PathJoin(resolution.resolved.absolutePath, name)


(***************************************************************************)
(* C30: every path listed in a suggestion block of the tool callback, when *)
(* requested verbatim against the same unchanged tree, resolves as a found *)
(* file, never as not found and never as a security violation, and that    *)
(* file is the one that was scored under the listed path.                  *)
(***************************************************************************)
\* the readable .md files beneath the root that mention a keyword of task i and
\* whose score is kept under the listed path
ScoredAs(i, listed) ==
    {f \in MatchingFiles(config.docRoot.absolutePath, AllKeywordsOf(paths[i], queryKeywords)) :
        ReplaceBackslashes(PathRelative(config.docRoot.absolutePath, f)) = listed}

SuggestedPathResolves ==
    pc \in {"running", "returned"} =>
        \A i \in 1..Len(tasks) :
            (tasks[i].pc = "done" /\ ~tasks[i].scan.threw) =>
                \A b \in BulletsAt(tasks[i].scan.text) :
                    \E listed \in {ListedPathAt(tasks[i].scan.text, b)} :
                    \E again \in {resolveDocPath(listed, config, fs)} :
                        /\ ~again.isSecurityViolation
                        /\ ~again.resolved.isNull
                        /\ fs[again.resolved.absolutePath].kind = "file"
                        /\ ScoredAs(i, listed) = {again.resolved.absolutePath}

=============================================================================
